---- MODULE Spec2Model ----
(***************************************************************************)
(* Varuna pipeline-parallel training: the per-stage schedule, the pipeline *)
(* executor with its background transfer workers (varuna/varuna.py) and    *)
(* the model partitioner (varuna/partitioned_model.py).                    *)
(***************************************************************************)
EXTENDS Integers, Sequences, FiniteSets, TLC

\* ------------------------------------------------------------------ bounds
MaxStages == 3
MaxChunks == 3
MaxMicroBatchSize == 2
\* stages times microbatches of one pipeline run
MaxTasks == 9
\* rows of a tensor given to scatter, and its chunk size
MaxRows == 7
MaxChunkSize == 3
\* cutpoints of a model given to PartitionedModel
MaxCutpoints == 3
\* cutpoints of a model whose parameter reads are traced
MaxTraceCutpoints == 2
\* processes of one host that run PartitionedModel.dry_run together
MaxLocalProcs == 3
\* the highest rank of a process
MaxRank == 2
\* tensors flowing through a cutpoint, and dimensions of a tensor
MaxTensors == 2
MaxDims == 2
\* entries a polled queue or the exception channel holds at a time
MaxQueued == 2
\* parameters of the stage's module that check_unused_parameters goes through
MaxParams == 2
\* declared pairs of shared weights
MaxPairs == 2
\* replicas of a stage, and processes of a job
MaxReplicas == 2
MaxWorld == 4
MaxInvocations == 3

\* ----------------------------------------------------------------- helpers
Min(a, b) == IF a < b THEN a ELSE b

\* math.ceil(a / b) for positive b
Ceil(a, b) == (a + b - 1) \div b

\* "no tensor" (Python's None where a tensor is expected)
None == [mb |-> -1, rows |-> 0]

\* task kinds as the executor decodes them (Pipeline.worker)
FORWARD == 0
RECOMPUTE == 1
BACKWARD == 2

\* -------------------------------------------------------------- scheduler
\* The genschedule program: a 1F1B schedule for one stage.  Warm-up of
\* num_stages - stage - 1 forwards (cut short when there are fewer
\* microbatches), then the steady state of one backward and one forward per
\* step (on the last stage, which has no warm-up, one forward and its
\* backward), then the cool-down of the backwards still owed.  A backward
\* whose forward does not immediately precede it is emitted as a recompute
\* entry followed by the backward entry.
WarmupDepth(S, M, s) == Min(S - s - 1, M)

BackwardEntries(w, m) ==
    IF w = 0 THEN << <<BACKWARD, m>> >>
             ELSE << <<RECOMPUTE, m>>, <<BACKWARD, m>> >>

RECURSIVE SteadyState(_, _, _)
SteadyState(w, M, i) ==
    IF i = 0 THEN << >>
    ELSE SteadyState(w, M, i - 1)
            \o (IF w = 0
                THEN << <<FORWARD, i - 1>> >> \o BackwardEntries(w, i - 1)
                ELSE BackwardEntries(w, i - 1) \o << <<FORWARD, w + i - 1>> >>)

RECURSIVE CoolDown(_, _, _)
CoolDown(w, M, i) ==
    IF i = 0 THEN << >>
    ELSE CoolDown(w, M, i - 1) \o BackwardEntries(w, M - w + i - 1)

genschedule(S, M, s) ==
    LET w == WarmupDepth(S, M, s)
    IN  [i \in 1..w |-> <<FORWARD, i - 1>>]
            \o SteadyState(w, M, M - w) \o CoolDown(w, M, w)

chunks_of_floor(batch_size_, micro_batch_size_) == batch_size_ \div micro_batch_size_

\* Varuna.generate_schedule: chunks = math.ceil(batch_size / micro_batch_size)
chunks_of(batch_size_, micro_batch_size_) == Ceil(batch_size_, micro_batch_size_)

generate_schedule_drops_last_step(partitions_, batch_size_, micro_batch_size_, stage_) ==
    LET steps == genschedule(partitions_, chunks_of(batch_size_, micro_batch_size_), stage_)
    IN  SubSeq(steps, 1, Len(steps) - 1)

\* Varuna.generate_schedule: the parsed output of genschedule for
\* (partitions, chunks, stage)
generate_schedule(partitions_, batch_size_, micro_batch_size_, stage_) ==
    genschedule(partitions_, chunks_of(batch_size_, micro_batch_size_), stage_)

\* ----------------------------------------------------------------- scatter
split_drop_remainder(v, chunk_size) ==
    [i \in 1..(Len(v) \div chunk_size) |->
        SubSeq(v, (i - 1) * chunk_size + 1, i * chunk_size)]

\* Tensor.split(chunk_size) along the leading dimension (tensor of >= 1 rows)
split(v, chunk_size) ==
    [i \in 1..Ceil(Len(v), chunk_size) |->
        SubSeq(v, (i - 1) * chunk_size + 1, Min(i * chunk_size, Len(v)))]

\* scatter: one pass per (k, v) item; microbatches[i][k] = i-th chunk of v
RECURSIVE scatter_items(_, _, _, _)
scatter_items(input, names, chunk_size, microbatches) ==
    IF names = {} THEN microbatches
    ELSE LET k == CHOOSE n \in names : TRUE
             chunked_values == split(input[k], chunk_size)
             n_out == IF Len(microbatches) < Len(chunked_values)
                      THEN Len(chunked_values) ELSE Len(microbatches)
             old(i) == IF i <= Len(microbatches) THEN microbatches[i]
                       ELSE << >>
             put(i) == IF i <= Len(chunked_values)
                       THEN [kk \in (DOMAIN old(i)) \cup {k} |->
                               IF kk = k THEN chunked_values[i] ELSE old(i)[kk]]
                       ELSE old(i)
         IN  scatter_items(input, names \ {k}, chunk_size,
                           [i \in 1..n_out |-> put(i)])

scatter(input, chunk_size) ==
    scatter_items(input, DOMAIN input, chunk_size, << >>)

\* ------------------------------------------------------------------ state
VARIABLES
    varuna,       \* the Varuna object's configuration (same on every rank)
    pipeline,     \* stage -> that stage's Pipeline object and its threads
    acts_wire,    \* stage s -> activations in flight from s to s + 1
    grads_wire,   \* stage s -> gradients in flight from s to s - 1
    sc,           \* a call of scatter: its arguments and its result
    pm            \* a PartitionedModel object while initialize runs

vars == <<varuna, pipeline, acts_wire, grads_wire, sc, pm>>
pipeVars == <<varuna, pipeline, acts_wire, grads_wire>>

Stages == 0..(varuna.partitions - 1)
LastStage == varuna.partitions - 1

\* ------------------------------------------------- Varuna.__init__ (config)
\* the full-batch input of a training step: one named tensor of n rows
FullBatch(n) == [k \in {"input_ids"} |-> [i \in 1..n |-> i]]

\* shape traced for the tensor crossing the boundary below stage s, with the
\* batch dimension set to the micro batch size (init_communication)
TracedShape(s, micro_batch_size_) == <<micro_batch_size_, s + 1>>

CountTask(sched, kind) == Cardinality({i \in 1..Len(sched) : sched[i][1] = kind})

IsActsEntry_recompute(task) == task = RECOMPUTE

\* entries the activation receiver posts a receive for
IsActsEntry(task) == task = FORWARD
\* entries the gradient receiver posts a receive for
IsGradsEntry(task) == task = BACKWARD

\* acts_sender / grads_sender: how many payloads the worker will send
acts_sender_count(sched) == CountTask(sched, FORWARD)
grads_sender_count(sched) == CountTask(sched, BACKWARD)

PostsReceive(task, grads) == IF grads THEN IsGradsEntry(task) ELSE IsActsEntry(task)

\* the first entry at or after position from that a receiver posts a receive
\* for (Len + 1: none is left and the receiver's loop ends)
NextEntry(sched, from, grads) ==
    IF \E j \in from..Len(sched) : PostsReceive(sched[j][1], grads)
    THEN CHOOSE j \in from..Len(sched) :
            /\ PostsReceive(sched[j][1], grads)
            /\ \A k \in from..(j - 1) : ~PostsReceive(sched[k][1], grads)
    ELSE Len(sched) + 1

NewPipeline(S, s, sched, batches_, c, last, dp) ==
    [ stage            |-> s,
      schedule         |-> sched,
      batches          |-> batches_,
      partitions       |-> S,
      data_parallel    |-> dp,
      fwd_inp_shape    |-> IF s > 0 THEN TracedShape(s, c) ELSE << >>,
      bwd_grad_shape   |-> IF s < S - 1 THEN TracedShape(s + 1, c) ELSE << >>,
      last_chunk_size  |-> last,
      index            |-> 1,
      run_state        |-> "run",
      loss             |-> None,
      acts_send_queue  |-> << >>,
      grads_send_queue |-> << >>,
      acts_queue       |-> << >>,
      grads_queue      |-> << >>,
      recompute_queue  |-> << >>,
      excp_queue       |-> << >>,
      acts_recv_pos    |-> IF s > 0 THEN NextEntry(sched, 1, FALSE)
                                    ELSE Len(sched) + 1,
      grads_recv_pos   |-> IF s < S - 1 THEN NextEntry(sched, 1, TRUE)
                                        ELSE Len(sched) + 1,
      acts_send_count  |-> IF s < S - 1 THEN acts_sender_count(sched) ELSE 0,
      grads_send_count |-> IF s > 0 THEN grads_sender_count(sched) ELSE 0,
      failed           |-> {},
      executed         |-> << >>,
      posted           |-> << >> ]

\* Varuna.__init__ then Varuna.forward up to the start of Pipeline.run's loop:
\* S stages, per-replica batch size B, micro batch size c, a training-step
\* input of n rows.
PipelineInit(S, B, c, dp, n) ==
    /\ varuna = [ partitions       |-> S,
                  batch_size       |-> B,
                  micro_batch_size |-> c,
                  last_chunk_size  |-> B % c,
                  data_parallel    |-> dp ]
    /\ pipeline = [s \in 0..(S - 1) |->
                     NewPipeline(S, s, generate_schedule(S, B, c, s),
                                 scatter(FullBatch(n), c), c, B % c, dp)]
    /\ acts_wire = [s \in 0..(S - 1) |-> << >>]
    /\ grads_wire = [s \in 0..(S - 1) |-> << >>]

ScIdle == sc = [called |-> FALSE]
PmIdle == pm = [state |-> "idle"]

\* the configurations within the bounds
Configs ==
    {cf \in [S : 1..MaxStages, c : 1..MaxMicroBatchSize,
             B : 1..(MaxChunks * MaxMicroBatchSize)] :
        /\ Ceil(cf.B, cf.c) <= MaxChunks
        /\ cf.S * Ceil(cf.B, cf.c) <= MaxTasks}

\* a training step whose input has batch_size rows
Init ==
    /\ \E cf \in Configs, dp \in BOOLEAN : PipelineInit(cf.S, cf.B, cf.c, dp, cf.B)
    /\ ScIdle
    /\ PmIdle

\* ------------------------------------------------------- Pipeline (compute)
GradMode_unless_forward(sched, i) == sched[i][1] = FORWARD /\ sched[i + 1][1] # FORWARD

\* Pipeline.run: a forward entry runs with gradient tracking when the next
\* entry of the schedule is a backward
GradMode(sched, i) == sched[i][1] = FORWARD /\ sched[i + 1][1] = BACKWARD

NoSync_every(data_parallel_, idx, n_batches) == data_parallel_ /\ idx <= n_batches - 1

\* Pipeline.run: data-parallel replicas run a task inside no_sync unless it
\* belongs to the last microbatch
NoSync(data_parallel_, idx, n_batches) == data_parallel_ /\ idx < n_batches - 1

send_always(p, tensor, grads, recompute) ==
    IF grads THEN [p EXCEPT !.grads_send_queue = Append(@, tensor)]
    ELSE [p EXCEPT !.acts_send_queue = Append(@, tensor)]

send_resend(p, tensor, grads, recompute) == send_always(p, tensor, grads, recompute)

\* the closure installed by set_model_send_fn(recompute)
send(p, tensor, grads, recompute) ==
    IF grads THEN [p EXCEPT !.grads_send_queue = Append(@, tensor)]
    ELSE IF ~recompute THEN [p EXCEPT !.acts_send_queue = Append(@, tensor)]
    ELSE p

\* what the stage computes for a microbatch: on stage 0 from its own input
\* slice, on a later stage from the activations its first cutpoint returned
StageOutput(p, idx, acts) ==
    IF p.stage > 0 THEN acts
    ELSE [mb |-> idx, rows |-> Len(p.batches[idx + 1]["input_ids"])]

\* self.model(**inputs): the stage's last cutpoint hands the output to send
model_forward(p, output, recompute) ==
    IF p.stage < p.partitions - 1 THEN send(p, output, FALSE, recompute) ELSE p

worker_forward_always_saves(p, grad_mode, idx) ==
    LET acts == IF p.stage > 0 THEN Head(p.acts_queue) ELSE None
        p1 == IF p.stage > 0 THEN [p EXCEPT !.acts_queue = Tail(@)] ELSE p
        output == StageOutput(p, idx, acts)
        p2 == model_forward(p1, output, FALSE)
        p3 == [p2 EXCEPT !.recompute_queue = Append(@, [rng |-> idx, acts |-> acts])]
    IN  IF grad_mode THEN [p3 EXCEPT !.loss = output] ELSE p3

\* worker, task == 0
worker_forward(p, grad_mode, idx) ==
    LET acts == IF p.stage > 0 THEN Head(p.acts_queue) ELSE None
        p1 == IF p.stage > 0 THEN [p EXCEPT !.acts_queue = Tail(@)] ELSE p
        output == StageOutput(p, idx, acts)
        p2 == model_forward(p1, output, FALSE)
    IN  IF grad_mode THEN [p2 EXCEPT !.loss = output]
        ELSE [p2 EXCEPT !.recompute_queue = Append(@, [rng |-> idx, acts |-> acts])]

worker_recompute_keeps_ctx(p, idx) ==
    LET ctx == Head(p.recompute_queue)
        output == StageOutput(p, idx, ctx.acts)
        p2 == model_forward(p, output, TRUE)
    IN  [p2 EXCEPT !.loss = output]

\* worker, task == 1
worker_recompute(p, idx) ==
    LET ctx == Head(p.recompute_queue)
        p1 == [p EXCEPT !.recompute_queue = Tail(@)]
        output == StageOutput(p, idx, ctx.acts)
        p2 == model_forward(p1, output, TRUE)
    IN  [p2 EXCEPT !.loss = output]

worker_backward_sends_on_every_stage(p) ==
    LET p1 == IF p.stage # p.partitions - 1
              THEN [p EXCEPT !.grads_queue = Tail(@)] ELSE p
        p2 == send(p1, p.loss, TRUE, FALSE)
    IN  [p2 EXCEPT !.loss = None]

worker_backward_keeps_loss(p) ==
    LET p1 == IF p.stage # p.partitions - 1
              THEN [p EXCEPT !.grads_queue = Tail(@)] ELSE p
    IN  IF p.stage > 0 THEN send(p1, p.loss, TRUE, FALSE) ELSE p1

\* worker, any other task: backward on self.loss
worker_backward(p) ==
    LET p1 == IF p.stage # p.partitions - 1
              THEN [p EXCEPT !.grads_queue = Tail(@)] ELSE p
        p2 == IF p.stage > 0 THEN send(p1, p.loss, TRUE, FALSE) ELSE p1
    IN  [p2 EXCEPT !.loss = None]

\* worker: the argument of torch.set_grad_enabled in the task (FALSE also for
\* a backward, which does not call it)
set_grad_enabled(kind, grad_mode) ==
    IF kind = FORWARD THEN grad_mode ELSE kind = RECOMPUTE

\* worker, backward: the gradient handed to self.loss.backward
backward_grads(p, kind) ==
    IF kind \in {FORWARD, RECOMPUTE} THEN "none"
    ELSE IF p.stage # p.partitions - 1 THEN "ones" ELSE "loss/chunks"

\* the payload the task takes from one of its queues (None when it takes none)
Dequeued(p, kind) ==
    IF kind = FORWARD THEN (IF p.stage > 0 THEN Head(p.acts_queue) ELSE None)
    ELSE IF kind = RECOMPUTE THEN [mb |-> Head(p.recompute_queue).rng, rows |-> 0]
    ELSE IF p.stage # p.partitions - 1 THEN Head(p.grads_queue) ELSE None

\* the iteration raises: the look-ahead or self.batches[task[1]] is out of
\* range, or backward finds no pending output
RunRaises(p) ==
    LET i == p.index
        kind == p.schedule[i][1]
        idx == p.schedule[i][2]
    IN  \/ kind = FORWARD /\ i + 1 > Len(p.schedule)
        \/ idx >= Len(p.batches)
        \/ kind \notin {FORWARD, RECOMPUTE} /\ p.loss = None

\* the iteration waits on an empty queue
RunBlocks(p) ==
    LET kind == p.schedule[p.index][1]
    IN  \/ kind = FORWARD /\ p.stage > 0 /\ p.acts_queue = << >>
        \/ kind = RECOMPUTE /\ p.recompute_queue = << >>
        \/ /\ kind \notin {FORWARD, RECOMPUTE}
           /\ p.stage # p.partitions - 1
           /\ p.grads_queue = << >>

\* one iteration of Pipeline.run's loop on stage s
run(s) ==
    LET p == pipeline[s]
        i == p.index
        kind == p.schedule[i][1]
        idx == p.schedule[i][2]
    IN  /\ p.run_state = "run"
        /\ i <= Len(p.schedule)
        /\ IF RunRaises(p)
           THEN pipeline' = [pipeline EXCEPT ![s].run_state = "raised"]
           ELSE /\ ~RunBlocks(p)
                /\ LET grad_mode == GradMode(p.schedule, i)
                       q == IF kind = FORWARD THEN worker_forward(p, grad_mode, idx)
                            ELSE IF kind = RECOMPUTE THEN worker_recompute(p, idx)
                            ELSE worker_backward(p)
                       entry == [ task      |-> kind,
                                  index     |-> idx,
                                  grad_mode |-> grad_mode,
                                  sync      |-> ~NoSync(p.data_parallel, idx, Len(p.batches)),
                                  got       |-> Dequeued(p, kind).mb,
                                  loss      |-> p.loss.mb,
                                  set_grad_enabled |-> set_grad_enabled(kind, grad_mode),
                                  grads     |-> backward_grads(p, kind) ]
                   IN  pipeline' = [pipeline EXCEPT ![s] =
                            [q EXCEPT !.index = i + 1,
                                      !.executed = Append(@, entry)]]
        /\ UNCHANGED <<varuna, acts_wire, grads_wire, sc, pm>>

\* the end of Pipeline.run: join the receive threads, return the loss.  The
\* send threads are not joined: __init__ starts them and then sets
\* acts_send_thread and grads_send_thread to None, so run finds no handle.
run_join(s) ==
    LET p == pipeline[s]
    IN  /\ p.run_state = "run"
        /\ p.index > Len(p.schedule)
        /\ p.acts_recv_pos > Len(p.schedule)
        /\ p.grads_recv_pos > Len(p.schedule)
        /\ pipeline' = [pipeline EXCEPT ![s].run_state = "done"]
        /\ UNCHANGED <<varuna, acts_wire, grads_wire, sc, pm>>

\* ------------------------------------------------------ transfer workers
recv_shape_off_by_one(shape, index, chunks, last_chunk_size_) ==
    IF index = chunks /\ last_chunk_size_ > 0
    THEN [shape EXCEPT ![1] = last_chunk_size_]
    ELSE shape

\* the shape a receiver posts for the entry of microbatch index: the stored
\* shape, or a copy with the remainder size for the last chunk
recv_shape(shape, index, chunks, last_chunk_size_) ==
    IF index = chunks - 1 /\ last_chunk_size_ > 0
    THEN [shape EXCEPT ![1] = last_chunk_size_]
    ELSE shape

\* the stored shape after a receive was posted (the remainder shape is a copy)
stored_shape(shape, posted_shape) == shape

\* acts_reciever: one iteration that posts a receive, waits for it and puts
\* the tensor on acts_queue
acts_reciever(s) ==
    LET p == pipeline[s]
        j == p.acts_recv_pos
        index == p.schedule[j][2]
        shape == recv_shape(p.fwd_inp_shape, index, Len(p.batches), p.last_chunk_size)
    IN  /\ s > 0
        /\ "acts_reciever" \notin p.failed
        /\ j <= Len(p.schedule)
        /\ acts_wire[s - 1] # << >>
        /\ acts_wire' = [acts_wire EXCEPT ![s - 1] = Tail(@)]
        /\ pipeline' = [pipeline EXCEPT
              ![s].acts_queue = Append(@, Head(acts_wire[s - 1])),
              ![s].acts_recv_pos = NextEntry(p.schedule, j + 1, FALSE),
              ![s].fwd_inp_shape = stored_shape(@, shape),
              ![s].posted = Append(@, [kind |-> "acts", index |-> index, shape |-> shape])]
        /\ UNCHANGED <<varuna, grads_wire, sc, pm>>

\* grads_reciever: likewise for gradients, from the next stage
grads_reciever(s) ==
    LET p == pipeline[s]
        j == p.grads_recv_pos
        index == p.schedule[j][2]
        shape == recv_shape(p.bwd_grad_shape, index, Len(p.batches), p.last_chunk_size)
    IN  /\ s < p.partitions - 1
        /\ "grads_reciever" \notin p.failed
        /\ j <= Len(p.schedule)
        /\ grads_wire[s + 1] # << >>
        /\ grads_wire' = [grads_wire EXCEPT ![s + 1] = Tail(@)]
        /\ pipeline' = [pipeline EXCEPT
              ![s].grads_queue = Append(@, Head(grads_wire[s + 1])),
              ![s].grads_recv_pos = NextEntry(p.schedule, j + 1, TRUE),
              ![s].bwd_grad_shape = stored_shape(@, shape),
              ![s].posted = Append(@, [kind |-> "grads", index |-> index, shape |-> shape])]
        /\ UNCHANGED <<varuna, acts_wire, sc, pm>>

\* acts_sender: one iteration of the while loop
acts_sender(s) ==
    LET p == pipeline[s]
    IN  /\ "acts_sender" \notin p.failed
        /\ p.acts_send_count > 0
        /\ p.acts_send_queue # << >>
        /\ acts_wire' = [acts_wire EXCEPT ![s] = Append(@, Head(p.acts_send_queue))]
        /\ pipeline' = [pipeline EXCEPT ![s].acts_send_queue = Tail(@),
                                        ![s].acts_send_count = @ - 1]
        /\ UNCHANGED <<varuna, grads_wire, sc, pm>>

\* grads_sender: one iteration of the while loop
grads_sender(s) ==
    LET p == pipeline[s]
    IN  /\ "grads_sender" \notin p.failed
        /\ p.grads_send_count > 0
        /\ p.grads_send_queue # << >>
        /\ grads_wire' = [grads_wire EXCEPT ![s] = Append(@, Head(p.grads_send_queue))]
        /\ pipeline' = [pipeline EXCEPT ![s].grads_send_queue = Tail(@),
                                        ![s].grads_send_count = @ - 1]
        /\ UNCHANGED <<varuna, acts_wire, sc, pm>>

\* ------------------------------------------------------------ the pipeline
Next ==
    \/ \E s \in Stages : run(s)
    \/ \E s \in Stages : run_join(s)
    \/ \E s \in Stages : acts_sender(s)
    \/ \E s \in Stages : acts_reciever(s)
    \/ \E s \in Stages : grads_sender(s)
    \/ \E s \in Stages : grads_reciever(s)

Spec == Init /\ [][Next]_vars

\* every thread that can take a step eventually takes one
LiveSpec == Spec /\ WF_vars(Next)

\* ---------------------------------------------------- transport failures
Workers == {"acts_sender", "acts_reciever", "grads_sender", "grads_reciever"}

\* dist.isend / dist.irecv / handle.wait raises in worker w of stage s: the
\* exception leaves the thread's target function and the thread ends (a
\* sender has already taken the payload off its queue)
transport_error(s, w) ==
    LET p == pipeline[s]
    IN  /\ \A t \in Stages : pipeline[t].failed = {}
        /\ \/ w = "acts_reciever" /\ s > 0 /\ p.acts_recv_pos <= Len(p.schedule)
              /\ pipeline' = [pipeline EXCEPT ![s].failed = @ \cup {w}]
           \/ w = "grads_reciever" /\ s < p.partitions - 1
              /\ p.grads_recv_pos <= Len(p.schedule)
              /\ pipeline' = [pipeline EXCEPT ![s].failed = @ \cup {w}]
           \/ w = "acts_sender" /\ p.acts_send_count > 0 /\ p.acts_send_queue # << >>
              /\ pipeline' = [pipeline EXCEPT ![s].failed = @ \cup {w},
                                              ![s].acts_send_queue = Tail(@)]
           \/ w = "grads_sender" /\ p.grads_send_count > 0 /\ p.grads_send_queue # << >>
              /\ pipeline' = [pipeline EXCEPT ![s].failed = @ \cup {w},
                                              ![s].grads_send_queue = Tail(@)]
        /\ UNCHANGED <<varuna, acts_wire, grads_wire, sc, pm>>

InitFault ==
    /\ \E cf \in Configs : cf.c = 1 /\ PipelineInit(cf.S, cf.B, cf.c, FALSE, cf.B)
    /\ ScIdle
    /\ PmIdle

NextFault ==
    \/ Next
    \/ \E s \in Stages, w \in Workers : transport_error(s, w)

SpecFault == InitFault /\ [][NextFault]_vars

\* ------------------------- a training step whose input is not batch_size rows
InitMismatch ==
    /\ \E cf \in Configs, n \in 1..(MaxChunks * MaxMicroBatchSize) :
          /\ n # cf.B
          /\ n <= MaxChunks * cf.c
          /\ PipelineInit(cf.S, cf.B, cf.c, FALSE, n)
    /\ ScIdle
    /\ PmIdle

SpecMismatch == InitMismatch /\ [][Next]_vars

\* ------------------------------------------------------------ properties
\* the number of microbatches of the configured batch: ceil(B / c)
M == Ceil(varuna.batch_size, varuna.micro_batch_size)

AllDone == \A s \in Stages : pipeline[s].run_state = "done"

\* every run has returned and every transfer worker has left its loop
AllFinished ==
    \A s \in Stages :
        /\ pipeline[s].run_state = "done"
        /\ pipeline[s].acts_recv_pos > Len(pipeline[s].schedule)
        /\ pipeline[s].grads_recv_pos > Len(pipeline[s].schedule)
        /\ pipeline[s].acts_send_count = 0
        /\ pipeline[s].grads_send_count = 0

\* stage s has executed the entry (kind, m)
Done(s, kind, m) ==
    \E k \in 1..Len(pipeline[s].executed) :
        /\ pipeline[s].executed[k].task = kind
        /\ pipeline[s].executed[k].index = m

\* C1: with a transport that delivers every send, every stage's run finishes
\* its whole schedule and every transfer worker ends: nothing waits forever.
C1_RunFinishes == <>AllFinished

C1_Witness ==
    /\ AllFinished
    /\ varuna.partitions = 3
    /\ M = 3
    /\ \A s \in Stages : Len(pipeline[s].executed) = Len(pipeline[s].schedule)

\* C2: every stage's schedule has each microbatch index exactly once as a
\* forward entry and exactly once as a backward entry (M of each), and in the
\* execution forward(s, m) precedes forward(s + 1, m) and backward(s + 1, m)
\* precedes backward(s, m).
C2_ScheduleRoundTrip ==
    /\ \A s \in Stages :
         LET sched == pipeline[s].schedule
         IN  /\ CountTask(sched, FORWARD) = M
             /\ CountTask(sched, BACKWARD) = M
             /\ \A m \in 0..(M - 1), kind \in {FORWARD, BACKWARD} :
                   Cardinality({i \in 1..Len(sched) : sched[i] = <<kind, m>>}) = 1
    /\ \A s \in Stages \ {LastStage} : \A m \in 0..(M - 1) :
         /\ Done(s + 1, FORWARD, m) => Done(s, FORWARD, m)
         /\ Done(s, BACKWARD, m) => Done(s + 1, BACKWARD, m)

C2_Witness ==
    /\ varuna.partitions = 3
    /\ M = 3
    /\ Done(2, FORWARD, 2)
    /\ Done(0, BACKWARD, 2)

\* the number of forward entries at the head of a schedule
RECURSIVE LeadingForwards(_)
LeadingForwards(sched) ==
    IF sched = << >> \/ Head(sched)[1] # FORWARD THEN 0
    ELSE 1 + LeadingForwards(Tail(sched))

\* forward and backward entries alternate one for one from the first entry
Alternates(sched) ==
    /\ Len(sched) = 2 * M
    /\ \A i \in 1..M : /\ sched[2 * i - 1] = <<FORWARD, i - 1>>
                       /\ sched[2 * i] = <<BACKWARD, i - 1>>

C5_TransferOrder ==
    \A s \in Stages : \A k \in 1..Len(pipeline[s].executed) :
        LET e == pipeline[s].executed[k]
        IN  /\ (e.task = FORWARD /\ s > 0) => e.got = e.index
            /\ (e.task = BACKWARD /\ s < LastStage) => e.got = e.index

C5_Witness ==
    /\ varuna.partitions = 3
    /\ M = 3
    /\ \E k \in 1..Len(pipeline[1].executed) :
         /\ pipeline[1].executed[k].task = FORWARD
         /\ pipeline[1].executed[k].index = 2
         /\ pipeline[1].executed[k].got = 2
    /\ \E k \in 1..Len(pipeline[1].executed) :
         /\ pipeline[1].executed[k].task = BACKWARD
         /\ pipeline[1].executed[k].index = 2
         /\ pipeline[1].executed[k].got = 2

\* C6: a receiver posts the remainder size as batch dimension exactly for the
\* entry of microbatch M - 1 when batch_size mod micro_batch_size > 0, the
\* micro batch size otherwise; the other dimensions are the traced ones, and
\* the stored shapes stay as they were.
C6_RemainderShape ==
    \A s \in Stages :
        LET p == pipeline[s]
            rem == varuna.batch_size % varuna.micro_batch_size
        IN  /\ \A k \in 1..Len(p.posted) :
                 LET r == p.posted[k]
                     traced == IF r.kind = "acts"
                               THEN TracedShape(s, varuna.micro_batch_size)
                               ELSE TracedShape(s + 1, varuna.micro_batch_size)
                 IN  /\ r.shape[1] = IF r.index = M - 1 /\ rem > 0
                                     THEN rem ELSE varuna.micro_batch_size
                     /\ Len(r.shape) = Len(traced)
                     /\ \A d \in 2..Len(traced) : r.shape[d] = traced[d]
            /\ s > 0 => p.fwd_inp_shape = TracedShape(s, varuna.micro_batch_size)
            /\ s < LastStage =>
                 p.bwd_grad_shape = TracedShape(s + 1, varuna.micro_batch_size)

C6_Witness ==
    /\ varuna.batch_size % varuna.micro_batch_size = 1
    /\ M = 3
    /\ varuna.partitions = 3
    /\ \E k \in 1..Len(pipeline[1].posted) :
         /\ pipeline[1].posted[k].index = 2
         /\ pipeline[1].posted[k].shape[1] = 1
         /\ pipeline[1].posted[k].kind = "grads"
    /\ pipeline[1].acts_recv_pos > Len(pipeline[1].schedule)

\* the position of the last backward entry of a schedule
LastBackward(sched) ==
    CHOOSE i \in 1..Len(sched) :
        /\ sched[i][1] = BACKWARD
        /\ \A j \in (i + 1)..Len(sched) : sched[j][1] # BACKWARD

\* C9: on a data-parallel stage the tasks of microbatches below M - 1 run
\* with gradient synchronization suppressed and those of microbatch M - 1
\* with it enabled; the only backward that runs with synchronization is the
\* last backward entry of the schedule, and a finished run has run it.
C9_SyncOnce ==
    \A s \in Stages :
        LET p == pipeline[s]
            synced == {k \in 1..Len(p.executed) :
                          p.executed[k].task = BACKWARD /\ p.executed[k].sync}
        IN  p.data_parallel =>
              /\ \A k \in 1..Len(p.executed) :
                    p.executed[k].sync = (p.executed[k].index = M - 1)
              /\ synced \subseteq {LastBackward(p.schedule)}
              /\ p.run_state = "done" => Cardinality(synced) = 1

C9_Witness ==
    /\ varuna.partitions = 3
    /\ M = 3
    /\ \A s \in Stages :
         /\ pipeline[s].data_parallel
         /\ pipeline[s].run_state = "done"
         /\ \E k \in 1..Len(pipeline[s].executed) :
               ~pipeline[s].executed[k].sync

\* C8: a schedule that does not fit the available microbatches is fatal at
\* setup, before any task of it executes: a run never fails on it after it
\* has executed tasks.
C8_MismatchFatalAtSetup ==
    \A s \in Stages :
        pipeline[s].run_state = "raised" => pipeline[s].executed = << >>

\* C4: after a transport error in a transfer worker no run is left waiting
\* forever: once nothing more can happen, every stage's run has finished or
\* has raised the error, and the error of a failed worker is on the exception
\* channel of its process unless its compute thread has raised it.
C4_FailureObserved ==
    ((\E s \in Stages : pipeline[s].failed # {}) /\ ~(ENABLED NextFault)) =>
        \A t \in Stages :
            /\ pipeline[t].run_state \in {"done", "raised"}
            /\ pipeline[t].failed # {} =>
                  (pipeline[t].excp_queue # << >> \/ pipeline[t].run_state = "raised")

\* ---------------------------------------------------------------- scatter
TensorNames == {"input_ids", "labels"}

\* a dictionary of named tensors with B rows each (row i of tensor k is <<k, i>>)
Dictionary(names, B) == [k \in names |-> [i \in 1..B |-> <<k, i>>]]

InitScatter ==
    /\ \E names \in (SUBSET TensorNames) \ {{}}, B \in 1..MaxRows, c \in 1..MaxChunkSize :
          sc = [ called       |-> FALSE,
                 input        |-> Dictionary(names, B),
                 chunk_size   |-> c,
                 rows         |-> B,
                 microbatches |-> << >> ]
    /\ PipelineInit(1, 1, 1, FALSE, 1)
    /\ PmIdle

\* Varuna.forward: batches = scatter(inputs, self.micro_batch_size)
scatter_call ==
    /\ ~sc.called
    /\ sc' = [sc EXCEPT !.called = TRUE,
                        !.microbatches = scatter(sc.input, sc.chunk_size)]
    /\ UNCHANGED <<pipeVars, pm>>

SpecScatter == InitScatter /\ [][scatter_call]_vars

\* the slices of tensor k in microbatches 1..i, concatenated
RECURSIVE Concatenated(_, _, _)
Concatenated(mbs, k, i) ==
    IF i = 0 THEN << >> ELSE Concatenated(mbs, k, i - 1) \o mbs[i][k]

\* C7: for tensors of B >= 1 rows and chunk size c, scatter returns
\* ceil(B / c) microbatches (the count generate_schedule computes); every
\* slice has c rows except the last, which has B mod c rows when that is not
\* zero; and the slices of each name, concatenated in order, are the tensor.
C7_ScatterRoundTrip ==
    sc.called =>
        LET mbs == sc.microbatches
            n == Len(mbs)
            B == sc.rows
            c == sc.chunk_size
        IN  /\ n = Ceil(B, c)
            /\ n = chunks_of(B, c)
            /\ \A i \in 1..n : DOMAIN mbs[i] = DOMAIN sc.input
            /\ \A i \in 1..n : \A k \in DOMAIN sc.input :
                  Len(mbs[i][k]) = IF i = n /\ B % c # 0 THEN B % c ELSE c
            /\ \A k \in DOMAIN sc.input : Concatenated(mbs, k, n) = sc.input[k]

C7_Witness ==
    /\ sc.called
    /\ sc.rows = 7
    /\ sc.chunk_size = 2
    /\ DOMAIN sc.input = TensorNames
    /\ Len(sc.microbatches) = 4
    /\ Len(sc.microbatches[4]["labels"]) = 1

\* ------------------------------------------- PartitionedModel.initialize
\* the canonical module order of a model with K cutpoints: layer 0, cutpoint
\* 1, layer 1, ..., cutpoint K, layer K (position 2j is cutpoint j, position
\* 2j + 1 is layer j, which holds one parameter, read in interval j)
ModulePositions(K) == 1..(2 * K + 1)
IsCutPoint(pos) == pos % 2 = 0
Pstage(pos) == (pos - 1) \div 2

asserts_pass_non_strict(stc, num_stages_, num_cutpoints_) ==
    /\ Len(stc) = num_stages_
    /\ stc[Len(stc)] <= num_cutpoints_
    /\ \A i \in 1..(num_stages_ - 1) : stc[i] <= stc[i + 1]

\* initialize: the three assertions on stage_to_cut, in their order
asserts_pass(stc, num_stages_, num_cutpoints_) ==
    /\ Len(stc) = num_stages_
    /\ stc[Len(stc)] <= num_cutpoints_
    /\ \A i \in 1..(num_stages_ - 1) : stc[i] < stc[i + 1]

default_stage_to_cut_from_one(num_cutpoints_, num_stages_) ==
    LET cuts_per_stage == (num_cutpoints_ + 1) \div num_stages_
    IN  [i \in 1..num_stages_ |-> i * cuts_per_stage]

\* initialize: the assignment computed when none was given
default_stage_to_cut(num_cutpoints_, num_stages_) ==
    LET cuts_per_stage == (num_cutpoints_ + 1) \div num_stages_
    IN  [i \in 1..num_stages_ |-> (i - 1) * cuts_per_stage]

\* prep_cutpoints: the loop over the ordered modules from position pos, with
\* the loop's counters; gives the model with cp_index, pre_cp and post_cp set
RECURSIVE prep_cutpoints_loop(_, _, _, _)
prep_cutpoints_loop(m, pos, index, assigned_index) ==
    IF pos > 2 * m.num_cutpoints + 1 THEN m
    ELSE
      LET chosen == IsCutPoint(pos) /\ (\E i \in 1..Len(m.stage_to_cut) :
                                           m.stage_to_cut[i] = index)
          m1 == IF chosen
                THEN [m EXCEPT
                        !.pre_cp = IF assigned_index = m.stage THEN pos ELSE @,
                        !.post_cp = IF assigned_index = m.stage + 1 THEN pos ELSE @,
                        !.cp_index = [@ EXCEPT ![pos] = assigned_index]]
                ELSE m
          assigned1 == IF chosen THEN assigned_index + 1 ELSE assigned_index
          index1 == IF IsCutPoint(pos) THEN index + 1 ELSE index
      IN  IF assigned1 = m.num_stages THEN m1
          ELSE prep_cutpoints_loop(m1, pos + 1, index1, assigned1)

prep_cutpoints(m) == prep_cutpoints_loop(m, 1, 1, 1)

\* remove_unused_parameters: add_flag after the modules before position pos
RECURSIVE add_flag_before(_, _)
add_flag_before(m, pos) ==
    IF pos = 1 THEN m.stage = 0
    ELSE LET before == add_flag_before(m, pos - 1)
         IN  IF /\ IsCutPoint(pos - 1)
                /\ m.cp_index[pos - 1] \in {m.stage, m.stage + 1}
             THEN ~before ELSE before

\* check_unused_parameters: the parameters of the modules still in place
\* whose pstage lies outside the stage's range are set to None
check_unused_parameters(m) ==
    LET start_pstage == m.stage_to_cut[m.stage + 1]
        end_pstage == IF m.stage < m.num_stages - 1
                      THEN m.stage_to_cut[m.stage + 2]
                      ELSE m.num_cutpoints + 1
    IN  [m EXCEPT !.discarded =
            {pos \in ModulePositions(m.num_cutpoints) \ m.replaced :
                /\ ~IsCutPoint(pos)
                /\ Pstage(pos) # -1
                /\ (Pstage(pos) < start_pstage \/ Pstage(pos) >= end_pstage)}]

\* remove_unused_parameters: every module that is not used is replaced by a
\* PassThroughModule, then check_unused_parameters
remove_unused_parameters(m) ==
    check_unused_parameters(
        [m EXCEPT !.replaced =
            {pos \in ModulePositions(m.num_cutpoints) :
                ~IsCutPoint(pos) /\ ~add_flag_before(m, pos)}])

NewPartitionedModel(S, K, stage_, is_none, stc) ==
    [ state                |-> "constructed",
      num_stages           |-> S,
      num_cutpoints        |-> K,
      stage                |-> stage_,
      stage_to_cut_is_none |-> is_none,
      stage_to_cut         |-> stc,
      cp_index             |-> [pos \in ModulePositions(K) |-> -1],
      pre_cp               |-> 0,
      post_cp              |-> 0,
      replaced             |-> {},
      discarded            |-> {} ]

\* sequences of length lo..hi over the set vals
SeqsOver(vals, lo, hi) == UNION {[1..n -> vals] : n \in lo..hi}

InitInitialize ==
    /\ \E S \in 1..MaxStages, K \in 0..MaxCutpoints :
         \E stage_ \in 0..(S - 1), is_none \in BOOLEAN :
           \E stc \in SeqsOver(0..(K + 1), S - 1, S + 1) :
              /\ is_none => stc = << >>
              /\ pm = NewPartitionedModel(S, K, stage_, is_none, stc)
    /\ PipelineInit(1, 1, 1, FALSE, 1)
    /\ ScIdle

\* PartitionedModel.initialize, after its dry run
initialize ==
    /\ pm.state = "constructed"
    /\ LET cuts_per_stage == (pm.num_cutpoints + 1) \div pm.num_stages
           m1 == IF pm.stage_to_cut_is_none
                 THEN [pm EXCEPT !.stage_to_cut_is_none = FALSE,
                                 !.stage_to_cut =
                                    default_stage_to_cut(pm.num_cutpoints, pm.num_stages)]
                 ELSE pm
       IN  pm' = IF pm.stage_to_cut_is_none /\ cuts_per_stage = 0
                 THEN [pm EXCEPT !.state = "value_error"]
                 ELSE IF ~asserts_pass(m1.stage_to_cut, m1.num_stages, m1.num_cutpoints)
                 THEN [m1 EXCEPT !.state = "assertion_error"]
                 ELSE [remove_unused_parameters(prep_cutpoints(m1))
                          EXCEPT !.state = "pruned"]
    /\ UNCHANGED <<pipeVars, sc>>

SpecInitialize == InitInitialize /\ [][initialize]_vars

\* the invariant of a stage assignment
ValidAssignment(stc, S, K) ==
    /\ Len(stc) = S
    /\ \A i \in 1..(Len(stc) - 1) : stc[i] < stc[i + 1]
    /\ stc[Len(stc)] <= K

\* nothing of the model was changed
Untouched(m) ==
    /\ \A pos \in DOMAIN m.cp_index : m.cp_index[pos] = -1
    /\ m.pre_cp = 0
    /\ m.post_cp = 0
    /\ m.replaced = {}
    /\ m.discarded = {}

\* C10: initialize partitions the model only with a stage assignment of
\* length num_stages that is strictly increasing and ends at or below K; an
\* assignment that breaks one of these is rejected with an assertion failure
\* and no cutpoint is activated, no module replaced, no parameter discarded.
C10_AssignmentValidated ==
    /\ pm.state = "pruned" =>
          ValidAssignment(pm.stage_to_cut, pm.num_stages, pm.num_cutpoints)
    /\ ( /\ pm.state \in {"assertion_error", "value_error", "pruned"}
         /\ ~pm.stage_to_cut_is_none
         /\ ~ValidAssignment(pm.stage_to_cut, pm.num_stages, pm.num_cutpoints) )
       => (pm.state = "assertion_error" /\ Untouched(pm))

C10_Witness ==
    /\ pm.state = "assertion_error"
    /\ pm.num_stages = 3
    /\ Len(pm.stage_to_cut) = 3
    /\ pm.stage_to_cut[3] <= pm.num_cutpoints
    /\ pm.stage_to_cut[1] = pm.stage_to_cut[2]

\* find_shared_weight_stages: the cut range of every stage
stage_to_cut_ranges(stc, num_stages_, num_cutpoints_) ==
    [i \in 1..Len(stc) |->
        IF i - 1 = num_stages_ - 1
        THEN {c \in 0..num_cutpoints_ : c >= stc[i]}
        ELSE {c \in 0..num_cutpoints_ : c >= stc[i] /\ c < stc[i + 1]}]

\* the model of process `stage_` after prep_cutpoints and
\* remove_unused_parameters under the assignment of m
PrunedAs(m, stage_) ==
    remove_unused_parameters(prep_cutpoints(
        NewPartitionedModel(m.num_stages, m.num_cutpoints, stage_, FALSE, m.stage_to_cut)))

\* the stages that keep the parameter of the layer at position pos
RetainedBy(m, pos) ==
    {s \in 0..(m.num_stages - 1) :
        LET q == PrunedAs(m, s) IN pos \notin q.replaced /\ pos \notin q.discarded}

\* C11: under an assignment that validation accepted, the cut ranges of the
\* stages are contiguous and disjoint and cover 0..K (every interval belongs
\* to exactly one stage), and every parameter is retained by exactly one stage.
C11_RangesPartition ==
    pm.state = "pruned" =>
        LET ranges == stage_to_cut_ranges(pm.stage_to_cut, pm.num_stages, pm.num_cutpoints)
        IN  /\ \A c \in 0..pm.num_cutpoints :
                  Cardinality({i \in 1..Len(ranges) : c \in ranges[i]}) = 1
            /\ \A pos \in ModulePositions(pm.num_cutpoints) :
                  ~IsCutPoint(pos) => Cardinality(RetainedBy(pm, pos)) = 1

\* ------------------------ PartitionedModel.trace_and_store_param_access
\* The traced model has layers 0..K in the canonical order, layer j running
\* in marker interval j (boundary_func has been called j times); the
\* parameter of layer p is named p.  reads[j] is the set of parameters the
\* trace function sees passed to a call while layer j runs.
Layers(K) == 0..K

\* trace_param_access: the intervals each parameter was seen in
param_access(K, reads) == [p \in Layers(K) |-> {j \in Layers(K) : p \in reads[j]}]

\* the lowest member of a set of intervals
accesed_cp(cps) == CHOOSE c \in cps : \A d \in cps : c <= d

access_assert_below_three(cps) == Cardinality(cps) < 3

\* the first assertion of the resolution loop
access_assert(cps) == Cardinality(cps) < 2

\* the interval a parameter resolves to: the one it was seen in, else the
\* number of cutpoints before its module in ordered_modules
pstage_of(K, access, p) ==
    IF access[p] # {} THEN accesed_cp(access[p]) ELSE p

NewTrace(K, reads) ==
    [ state                |-> "untraced",
      num_cutpoints        |-> K,
      reads                |-> reads,
      failed_param         |-> -1,
      has_pstage           |-> FALSE,
      param_name_to_pstage |-> [p \in {} |-> 0],
      pstage_file_written  |-> FALSE,
      pstage_file          |-> [p \in {} |-> 0] ]

InitTrace ==
    /\ \E K \in 0..MaxTraceCutpoints :
         \E reads \in [Layers(K) -> SUBSET Layers(K)] : pm = NewTrace(K, reads)
    /\ PipelineInit(1, 1, 1, FALSE, 1)
    /\ ScIdle

trace_and_store_param_access ==
    /\ pm.state = "untraced"
    /\ LET K == pm.num_cutpoints
           access == param_access(K, pm.reads)
           failing == {p \in Layers(K) : ~access_assert(access[p])}
           mapping == [p \in Layers(K) |-> pstage_of(K, access, p)]
       IN  pm' = IF failing # {}
                 THEN [pm EXCEPT !.state = "assertion_error",
                                 !.failed_param = accesed_cp(failing)]
                 ELSE [pm EXCEPT !.state = "resolved",
                                 !.has_pstage = TRUE,
                                 !.param_name_to_pstage = mapping,
                                 !.pstage_file_written = TRUE,
                                 !.pstage_file = mapping]
    /\ UNCHANGED <<pipeVars, sc>>

SpecTrace == InitTrace /\ [][trace_and_store_param_access]_vars

\* C12: a parameter seen in two or more intervals makes the resolution fail
\* with the assertion on that parameter, with no mapping set and no mapping
\* file written; when the resolution succeeds every parameter of the mapping
\* has one interval, the only one it was seen in if it was seen.
C12_MultiIntervalFatal ==
    LET K == pm.num_cutpoints
        access == param_access(K, pm.reads)
    IN  pm.state # "untraced" =>
          /\ (\E p \in Layers(K) : Cardinality(access[p]) >= 2) =>
                /\ pm.state = "assertion_error"
                /\ Cardinality(access[pm.failed_param]) >= 2
                /\ ~pm.has_pstage
                /\ ~pm.pstage_file_written
          /\ pm.state = "resolved" =>
                /\ DOMAIN pm.param_name_to_pstage = Layers(K)
                /\ \A p \in Layers(K) :
                      /\ pm.param_name_to_pstage[p] \in Layers(K)
                      /\ access[p] \subseteq {pm.param_name_to_pstage[p]}

C12_Witness ==
    /\ pm.state = "assertion_error"
    /\ pm.num_cutpoints = 2
    /\ pm.failed_param = 0
    /\ param_access(2, pm.reads)[0] = {0, 2}

\* C13: when the resolution succeeds, the interval of every parameter is the
\* structural interval of the module that holds it (the number of cutpoints
\* before that module in the canonical order).
C13_OwnerIsStructural ==
    pm.state = "resolved" =>
        \A p \in Layers(pm.num_cutpoints) : pm.param_name_to_pstage[p] = p

\* ------------------------------------------------------------- dry_run
\* the size of a tensor of n dimensions under batch size b: the batch
\* dimension first, the others of a size that does not follow the batch
TensorSize(n, b) == [i \in 1..n |-> IF i = 1 THEN b ELSE 3]

\* the lists of tensor sizes a cutpoint can record under batch size b
SizeLists(b) ==
    UNION {[1..k -> {TensorSize(n, b) : n \in 1..MaxDims}] : k \in 1..MaxTensors}

\* the tensors both traces record at a cutpoint where nothing is unusual
UsualSizes(b) == << TensorSize(MaxDims, b) >>

\* dry_run: the comparison of the two traces at one cutpoint from tensor idx
\* on; "ok", or the exception that ends it
RECURSIVE compare_shapes(_, _, _)
compare_shapes(shapes_1, shapes_2, idx) ==
    IF idx > Len(shapes_1) THEN "ok"
    ELSE IF idx > Len(shapes_2) THEN "index_error"
    ELSE IF Len(shapes_1[idx]) # Len(shapes_2[idx]) THEN "assertion_error"
    ELSE compare_shapes(shapes_1, shapes_2, idx + 1)

\* dry_run: the batch-size indices of one tensor
indices_to_change(shape_1, shape_2) ==
    {i \in 1..Len(shape_1) : shape_1[i] = 1 /\ shape_2[i] = 2}

\* dry_run: the loop over the cutpoints of input_shapes from cutpoint cp on
RECURSIVE compare_traces(_, _, _)
compare_traces(input_shapes_1, input_shapes_2, cp) ==
    IF cp > Len(input_shapes_1) THEN "ok"
    ELSE LET r == compare_shapes(input_shapes_1[cp], input_shapes_2[cp], 1)
         IN  IF r # "ok" THEN r
             ELSE compare_traces(input_shapes_1, input_shapes_2, cp + 1)

NewDryRun(K, odd, s1, s2) ==
    [ state            |-> "start",
      num_cutpoints    |-> K,
      input_shapes_1   |-> [cp \in 1..K |-> IF cp = odd THEN s1 ELSE UsualSizes(1)],
      input_shapes_2   |-> [cp \in 1..K |-> IF cp = odd THEN s2 ELSE UsualSizes(2)],
      files_written    |-> FALSE,
      shape_indices_to_change |-> << >> ]

InitDryRun ==
    /\ \E K \in 1..MaxTraceCutpoints, s1 \in SizeLists(1), s2 \in SizeLists(2) :
         \E odd \in 1..K : pm = NewDryRun(K, odd, s1, s2)
    /\ PipelineInit(1, 1, 1, FALSE, 1)
    /\ ScIdle

\* dry_run(model, get_batch, from_cache), after its two forward passes
dry_run ==
    /\ pm.state = "start"
    /\ LET r == compare_traces(pm.input_shapes_1, pm.input_shapes_2, 1)
       IN  pm' = IF r # "ok" THEN [pm EXCEPT !.state = r]
                 ELSE [pm EXCEPT
                         !.state = "completed",
                         !.files_written = TRUE,
                         !.shape_indices_to_change =
                            [cp \in 1..pm.num_cutpoints |->
                               [idx \in 1..Len(pm.input_shapes_1[cp]) |->
                                  indices_to_change(pm.input_shapes_1[cp][idx],
                                                    pm.input_shapes_2[cp][idx])]]]
    /\ UNCHANGED <<pipeVars, sc>>

SpecDryRun == InitDryRun /\ [][dry_run]_vars

\* the traces disagree at a cutpoint in the number of tensors or in the
\* number of dimensions of a tensor
TracesDisagree ==
    \E cp \in 1..pm.num_cutpoints :
        \/ Len(pm.input_shapes_1[cp]) # Len(pm.input_shapes_2[cp])
        \/ \E idx \in 1..Min(Len(pm.input_shapes_1[cp]), Len(pm.input_shapes_2[cp])) :
              Len(pm.input_shapes_1[cp][idx]) # Len(pm.input_shapes_2[cp][idx])

\* C14: when the two traces disagree at a cutpoint in the number of tensors
\* or in the number of dimensions of a tensor, dry_run ends in an assertion
\* violation and writes no cache file.
C14_DisagreementFatal ==
    (pm.state # "start" /\ TracesDisagree) =>
        (pm.state = "assertion_error" /\ ~pm.files_written)

\* ------------------------------------------- PartitionedModel.forward
\* One call of forward on a pruned stage.  The stage's module runs its
\* modules in the canonical order; raise_at is the position of the module
\* that throws (0: none throws).  The cutpoint with cp_index = stage + 1
\* records its output with set_ret_val when it has run.  print_takes_force
\* says whether the print in scope accepts the keyword force (the builtin
\* one does not; a launcher may have replaced it).
ForwardCalls ==
    {c \in [S : 1..MaxStages, K : 0..MaxCutpoints, stage : 0..(MaxStages - 1),
            raise_at : 0..(2 * MaxCutpoints + 1), print_takes_force : BOOLEAN] :
        /\ c.stage < c.S
        /\ c.K + 1 >= c.S
        /\ c.raise_at <= 2 * c.K + 1}

NewForward(c) ==
    [ state             |-> "called",
      model             |-> PrunedAs(NewPartitionedModel(c.S, c.K, c.stage, FALSE,
                                         default_stage_to_cut(c.K, c.S)), c.stage),
      raise_at          |-> c.raise_at,
      print_takes_force |-> c.print_takes_force,
      ret_val_recorded  |-> FALSE,
      result            |-> "none",
      exception         |-> "none",
      value             |-> "none" ]

InitForward ==
    /\ \E c \in ForwardCalls : pm = NewForward(c)
    /\ PipelineInit(1, 1, 1, FALSE, 1)
    /\ ScIdle

\* CutPoint.forward of the cutpoint after the stage: did set_ret_val_func run
\* before the module threw
set_ret_val_ran(post_cp_, raise_at_) ==
    post_cp_ # 0 /\ (raise_at_ = 0 \/ post_cp_ < raise_at_)

\* the except clause of forward: what leaves it when ret_val is None
except_no_ret_val(print_takes_force_) ==
    IF print_takes_force_ THEN "module_exception" ELSE "TypeError"

PartitionedModel_forward ==
    /\ pm.state = "called"
    /\ LET recorded == set_ret_val_ran(pm.model.post_cp, pm.raise_at)
           raised == pm.raise_at # 0
       IN  pm' = [pm EXCEPT
                    !.state = "forwarded",
                    !.ret_val_recorded = recorded,
                    !.result = IF raised /\ ~recorded THEN "raised" ELSE "returned",
                    !.exception = IF raised /\ ~recorded
                                  THEN except_no_ret_val(pm.print_takes_force)
                                  ELSE "none",
                    !.value = IF raised /\ ~recorded THEN "none"
                              ELSE IF recorded THEN "ret_val" ELSE "calc_val"]
    /\ UNCHANGED <<pipeVars, sc>>

SpecForward == InitForward /\ [][PartitionedModel_forward]_vars

\* C15: when the stage's module throws, forward raises that exception to
\* its caller if and only if no override value was recorded during the call;
\* when one was recorded the exception is suppressed and the override value is
\* returned.
C15_ReraiseUnlessOverride ==
    (pm.state = "forwarded" /\ pm.raise_at # 0) =>
        /\ ~pm.ret_val_recorded =>
              (pm.result = "raised" /\ pm.exception = "module_exception")
        /\ pm.ret_val_recorded =>
              (pm.result = "returned" /\ pm.value = "ret_val")

\* ------------------------------------------------------- construction
\* stage_to_rank_map, given by the stage of every rank (-1: the rank is in no
\* stage); the ranks of a stage in increasing order
RankMaps(S) == [0..MaxRank -> -1..(S - 1)]
RanksOf(map, stage_) == {r \in DOMAIN map : map[r] = stage_}

\* the loops over stage_to_rank_map: the stage found for a rank, else -1
stage_of_rank(map, S, rank_) ==
    IF \E s \in 0..(S - 1) : rank_ \in RanksOf(map, s)
    THEN CHOOSE s \in 0..(S - 1) : rank_ \in RanksOf(map, s)
    ELSE -1

NewConstruction(ctor, S, map, rank_) ==
    [ state             |-> "new",
      ctor              |-> ctor,
      num_stages        |-> S,
      stage_to_rank_map |-> map,
      rank              |-> rank_,
      stage             |-> -1,
      exception         |-> "none",
      started           |-> {} ]

InitConstruct ==
    /\ \E ctor \in {"Varuna", "PartitionedModel"}, S \in 1..MaxStages, rank_ \in 0..MaxRank :
         \E map \in RankMaps(S) : pm = NewConstruction(ctor, S, map, rank_)
    /\ PipelineInit(1, 1, 1, FALSE, 1)
    /\ ScIdle

\* Varuna.__init__: the check after the search for the rank
Varuna_init_check(stage_) == IF stage_ = -1 THEN "ValueError" ELSE "none"

\* PartitionedModel.__init__: the else clause of the search; the message is
\* built by adding the rank, an integer, to a string
PartitionedModel_init_check(stage_) == IF stage_ = -1 THEN "TypeError" ELSE "none"

\* Varuna.__init__, up to the construction of the PartitionedModel
Varuna_init ==
    /\ pm.state = "new" /\ pm.ctor = "Varuna"
    /\ LET stage_ == stage_of_rank(pm.stage_to_rank_map, pm.num_stages, pm.rank)
           e == Varuna_init_check(stage_)
       IN  pm' = IF e # "none"
                 THEN [pm EXCEPT !.state = "raised", !.exception = e]
                 ELSE [pm EXCEPT !.state = "partitioning", !.stage = stage_,
                                 !.started = {"PartitionedModel", "dry_run"}]
    /\ UNCHANGED <<pipeVars, sc>>

\* PartitionedModel.__init__
PartitionedModel_init ==
    /\ pm.state = "new" /\ pm.ctor = "PartitionedModel"
    /\ LET stage_ == stage_of_rank(pm.stage_to_rank_map, pm.num_stages, pm.rank)
           e == PartitionedModel_init_check(stage_)
       IN  pm' = IF e # "none"
                 THEN [pm EXCEPT !.state = "raised", !.exception = e]
                 ELSE [pm EXCEPT !.state = "constructed", !.stage = stage_]
    /\ UNCHANGED <<pipeVars, sc>>

NextConstruct ==
    \/ Varuna_init
    \/ PartitionedModel_init

SpecConstruct == InitConstruct /\ [][NextConstruct]_vars

\* C16: construction by a process whose rank is in no stage of
\* stage_to_rank_map fails with a ValueError, with no dry run, partitioning,
\* worker thread or pipeline run started.
C16_MissingRankFatal ==
    ( /\ pm.state # "new"
      /\ stage_of_rank(pm.stage_to_rank_map, pm.num_stages, pm.rank) = -1 )
    => (pm.state = "raised" /\ pm.exception = "ValueError" /\ pm.started = {})

\* ------------------------------------ PartitionedModel.dry_run (barriers)
\* The processes of one host, local ranks 0..n-1, each running
\* PartitionedModel.dry_run.  files.dry stands for the dry-run files,
\* files.pstage for _tmp_pstage_mapping: "absent", "writing" (open, not yet
\* complete) or "written".  arrived[k] is the set of processes that have
\* called barrier k; a barrier lets a process on when all have called it.
LocalRanks == 0..(pm.n - 1)

NewDryRunProcs(n, from_cache, dry_file, pstage_file, dry_raises, trace_raises) ==
    [ n            |-> n,
      from_cache   |-> from_cache,
      dry_raises   |-> dry_raises,
      trace_raises |-> trace_raises,
      files        |-> [dry |-> dry_file, pstage |-> pstage_file],
      pc           |-> [r \in 0..(n - 1) |-> "phase1"],
      arrived      |-> [k \in 1..2 |-> {}],
      writers      |-> {},
      saw          |-> [r \in 0..(n - 1) |-> {}] ]

InitBarrier ==
    /\ \E n \in 1..MaxLocalProcs, from_cache \in BOOLEAN,
          dry_file \in {"absent", "written"}, pstage_file \in {"absent", "written"},
          dry_raises \in BOOLEAN, trace_raises \in BOOLEAN :
         pm = NewDryRunProcs(n, from_cache, dry_file, pstage_file, dry_raises, trace_raises)
    /\ PipelineInit(1, 1, 1, FALSE, 1)
    /\ ScIdle

\* the condition of the two if statements: this process runs the trace and
\* writes the files
writes_artifact(r, from_cache, file_state) ==
    r = 0 /\ ~(from_cache /\ file_state = "written")

\* the first if: dry_run(...) starts, or the process goes to its barrier
dry_run_begin(r) ==
    /\ UNCHANGED <<pipeVars, sc>>
    /\ pm.pc[r] = "phase1"
    /\ pm' = IF writes_artifact(r, pm.from_cache, pm.files.dry)
             THEN IF pm.dry_raises
                  THEN [pm EXCEPT !.pc[r] = "raised"]
                  ELSE [pm EXCEPT !.pc[r] = "writing1", !.files.dry = "writing",
                                  !.writers = @ \cup {r}]
             ELSE [pm EXCEPT !.pc[r] = "barrier1_reader", !.arrived[1] = @ \cup {r}]

\* dry_run(...) closes its last file and returns; dist.barrier() is called
dry_run_end(r) ==
    /\ UNCHANGED <<pipeVars, sc>>
    /\ pm.pc[r] = "writing1"
    /\ pm' = [pm EXCEPT !.pc[r] = "barrier1_writer", !.files.dry = "written",
                        !.arrived[1] = @ \cup {r}]

\* dist.barrier() returns
barrier_return(r) ==
    /\ UNCHANGED <<pipeVars, sc>>
    /\ \/ /\ pm.pc[r] \in {"barrier1_reader", "barrier1_writer"}
          /\ pm.arrived[1] = LocalRanks
       \/ /\ pm.pc[r] \in {"barrier2_reader", "barrier2_writer"}
          /\ pm.arrived[2] = LocalRanks
    /\ pm' = [pm EXCEPT !.pc[r] = CASE @ = "barrier1_reader" -> "read1"
                                    [] @ = "barrier1_writer" -> "phase2"
                                    [] @ = "barrier2_reader" -> "read2"
                                    [] @ = "barrier2_writer" -> "done"]

\* read_dry_run_out
read_dry_run_out(r) ==
    /\ UNCHANGED <<pipeVars, sc>>
    /\ pm.pc[r] = "read1"
    /\ pm' = [pm EXCEPT !.saw[r] = @ \cup {<<"dry", pm.files.dry>>},
                        !.pc[r] = IF pm.files.dry = "absent" THEN "raised" ELSE "phase2"]

\* the second if: trace_and_store_param_access starts, or the barrier
trace_begin(r) ==
    /\ UNCHANGED <<pipeVars, sc>>
    /\ pm.pc[r] = "phase2"
    /\ pm' = IF writes_artifact(r, pm.from_cache, pm.files.pstage)
             THEN IF pm.trace_raises
                  THEN [pm EXCEPT !.pc[r] = "raised"]
                  ELSE [pm EXCEPT !.pc[r] = "writing2", !.files.pstage = "writing",
                                  !.writers = @ \cup {r}]
             ELSE [pm EXCEPT !.pc[r] = "barrier2_reader", !.arrived[2] = @ \cup {r}]

trace_end(r) ==
    /\ UNCHANGED <<pipeVars, sc>>
    /\ pm.pc[r] = "writing2"
    /\ pm' = [pm EXCEPT !.pc[r] = "barrier2_writer", !.files.pstage = "written",
                        !.arrived[2] = @ \cup {r}]

\* pickle.load of _tmp_pstage_mapping
read_pstage(r) ==
    /\ UNCHANGED <<pipeVars, sc>>
    /\ pm.pc[r] = "read2"
    /\ pm' = [pm EXCEPT !.saw[r] = @ \cup {<<"pstage", pm.files.pstage>>},
                        !.pc[r] = IF pm.files.pstage = "absent" THEN "raised" ELSE "done"]

NextBarrier ==
    \/ \E r \in LocalRanks : dry_run_begin(r)
    \/ \E r \in LocalRanks : dry_run_end(r)
    \/ \E r \in LocalRanks : barrier_return(r)
    \/ \E r \in LocalRanks : read_dry_run_out(r)
    \/ \E r \in LocalRanks : trace_begin(r)
    \/ \E r \in LocalRanks : trace_end(r)
    \/ \E r \in LocalRanks : read_pstage(r)

SpecBarrier == InitBarrier /\ [][NextBarrier]_vars

AtBarrier(r) ==
    pm.pc[r] \in {"barrier1_reader", "barrier1_writer", "barrier2_reader", "barrier2_writer"}

\* C17: only local rank 0 writes the artifacts; a process reads an artifact
\* only when it is completely written; and no process is left waiting at a
\* barrier: when nothing more can happen none is at a barrier.
C17_BarrierOrdering ==
    /\ pm.writers \subseteq {0}
    /\ \A r \in LocalRanks : \A s \in pm.saw[r] : s[2] = "written"
    /\ ~(ENABLED NextBarrier) => \A r \in LocalRanks : ~AtBarrier(r)

\* --------------------------------------------- forward modes and recompute
\* contexts of microbatch m waiting on the recompute queue of stage s
SavedContexts(s, m) ==
    Cardinality({i \in 1..Len(pipeline[s].recompute_queue) :
                    pipeline[s].recompute_queue[i].rng = m})

\* executed entries of stage s of a kind that took the context of microbatch m
Recomputed(s, m) ==
    Cardinality({k \in 1..Len(pipeline[s].executed) :
                    /\ pipeline[s].executed[k].task = RECOMPUTE
                    /\ pipeline[s].executed[k].got = m})

\* C18: an executed forward entry ran with gradient tracking if and only if
\* the next schedule entry is the backward of its microbatch; a forward
\* without gradient tracking has saved exactly one context (still queued, or
\* taken by one recompute), and when the run is done its microbatch has been
\* recomputed after it; a forward with gradient tracking saves none.
C18_ForwardMode ==
    \A s \in Stages :
        LET p == pipeline[s] IN
        \A k \in 1..Len(p.executed) :
            p.executed[k].task = FORWARD =>
                LET m == p.executed[k].index IN
                /\ p.executed[k].set_grad_enabled <=>
                      (k + 1 <= Len(p.schedule) /\ p.schedule[k + 1] = <<BACKWARD, m>>)
                /\ ~p.executed[k].set_grad_enabled =>
                      /\ SavedContexts(s, m) + Recomputed(s, m) = 1
                      /\ p.run_state = "done" =>
                            \E j \in (k + 1)..Len(p.executed) :
                                p.executed[j].task = RECOMPUTE /\ p.executed[j].index = m
                /\ p.executed[k].set_grad_enabled =>
                      SavedContexts(s, m) + Recomputed(s, m) = 0

C18_Witness ==
    /\ varuna.partitions = 2
    /\ M = 2
    /\ Len(pipeline[0].executed) >= 3
    /\ ~pipeline[0].executed[1].set_grad_enabled
    /\ pipeline[0].executed[2].task = RECOMPUTE
    /\ Len(pipeline[1].executed) >= 1
    /\ pipeline[1].executed[1].set_grad_enabled

\* C19 (as amended): a recompute entry takes the saved context of its
\* microbatch and re-runs the forward with gradient tracking, keeping the
\* output; the backward on that output is the schedule entry that follows it
\* directly, with a gradient of ones on a stage that is not the last and the
\* loss divided by the number of microbatches on the last stage.
C19_RecomputeThenBackward ==
    \A s \in Stages :
        LET p == pipeline[s] IN
        /\ \A k \in 1..Len(p.executed) :
              p.executed[k].task = RECOMPUTE =>
                 LET m == p.executed[k].index IN
                 /\ p.executed[k].got = m
                 /\ p.executed[k].set_grad_enabled
                 /\ p.schedule[k + 1] = <<BACKWARD, m>>
                 /\ IF k = Len(p.executed) THEN p.loss.mb = m
                    ELSE /\ p.executed[k + 1].task = BACKWARD
                         /\ p.executed[k + 1].loss = m
        /\ \A k \in 1..Len(p.executed) :
              p.executed[k].task = BACKWARD =>
                 p.executed[k].grads = IF s = LastStage THEN "loss/chunks" ELSE "ones"

C19_Witness ==
    /\ varuna.partitions = 3
    /\ Len(pipeline[0].executed) >= 4
    /\ pipeline[0].executed[3].task = RECOMPUTE
    /\ pipeline[0].executed[4].task = BACKWARD
    /\ pipeline[0].executed[4].grads = "ones"
    /\ \E k \in 1..Len(pipeline[2].executed) : pipeline[2].executed[k].grads = "loss/chunks"

\* C19 as stated: the task that recomputes also invokes backward on the
\* recomputed output before the next schedule entry starts, so that after a
\* recompute entry no output is pending.
C19_Original ==
    \A s \in Stages :
        LET p == pipeline[s] IN
        (p.executed # << >> /\ p.executed[Len(p.executed)].task = RECOMPUTE)
            => p.loss = None

\* the microbatches of the executed entries of stage s that satisfy Keep, in order
RECURSIVE MicrobatchesOf(_, _, _)
MicrobatchesOf(executed, k, recomputes) ==
    IF k = 0 THEN << >>
    ELSE LET e == executed[k]
             rest == MicrobatchesOf(executed, k - 1, recomputes)
         IN  IF recomputes /\ e.task = RECOMPUTE THEN Append(rest, e.index)
             ELSE IF ~recomputes /\ e.task = FORWARD /\ ~e.set_grad_enabled
                  THEN Append(rest, e.index)
             ELSE rest

\* C20: the k-th recompute of a stage has the microbatch of its k-th forward
\* without gradient tracking and takes the context that forward saved; a
\* recompute entry never finds the recompute queue empty; every context is
\* taken once and the queue is empty when the run is done.
C20_RecomputeQueue ==
    \A s \in Stages :
        LET p == pipeline[s]
            saved == MicrobatchesOf(p.executed, Len(p.executed), FALSE)
            taken == MicrobatchesOf(p.executed, Len(p.executed), TRUE)
        IN  /\ Len(taken) <= Len(saved)
            /\ \A k \in 1..Len(taken) : taken[k] = saved[k]
            /\ \A k \in 1..Len(p.executed) :
                  p.executed[k].task = RECOMPUTE => p.executed[k].got = p.executed[k].index
            /\ Len(p.recompute_queue) = Len(saved) - Len(taken)
            /\ (p.run_state = "run" /\ p.index <= Len(p.schedule)
                  /\ p.schedule[p.index][1] = RECOMPUTE) => p.recompute_queue # << >>
            /\ p.run_state = "done" => p.recompute_queue = << >>

C20_Witness ==
    /\ varuna.partitions = 3
    /\ M = 3
    /\ pipeline[0].run_state = "done"
    /\ MicrobatchesOf(pipeline[0].executed, Len(pipeline[0].executed), TRUE) = <<0, 1, 2>>

\* ------------------------------------------------------ transfer accounting
\* payloads of microbatch m in a queue
InQueue(q, m) == Cardinality({i \in 1..Len(q) : q[i].mb = m})

\* executed entries of stage s of the given kind that took the payload of m
Took(s, kind, m) ==
    Cardinality({k \in 1..Len(pipeline[s].executed) :
                    /\ pipeline[s].executed[k].task = kind
                    /\ pipeline[s].executed[k].got = m})

\* executed entries (kind, m) of stage s
Ran(s, kind, m) ==
    Cardinality({k \in 1..Len(pipeline[s].executed) :
                    /\ pipeline[s].executed[k].task = kind
                    /\ pipeline[s].executed[k].index = m})

\* receives the receiver of stage s has posted so far
Posted(s, kind_) ==
    Cardinality({k \in 1..Len(pipeline[s].posted) : pipeline[s].posted[k].kind = kind_})

\* C21: the activations of microbatch m leave a non-final stage once (one
\* payload per forward, none for the recompute) and every backward of a
\* non-first stage puts one gradient payload; each payload is somewhere on its
\* way (send queue, transport, receive queue) or was taken by exactly one task
\* of the neighbour; a sender sends as many payloads as the neighbouring
\* receiver posts; when every run has returned the four queues of every stage
\* are empty.
C21_PayloadsOnce ==
    /\ \A s \in Stages \ {LastStage} : \A m \in 0..(M - 1) :
          /\ InQueue(pipeline[s].acts_send_queue, m) + InQueue(acts_wire[s], m)
                + InQueue(pipeline[s + 1].acts_queue, m) + Took(s + 1, FORWARD, m)
             = Ran(s, FORWARD, m)
          /\ InQueue(pipeline[s + 1].grads_send_queue, m) + InQueue(grads_wire[s + 1], m)
                + InQueue(pipeline[s].grads_queue, m) + Took(s, BACKWARD, m)
             = Ran(s + 1, BACKWARD, m)
          /\ Ran(s, FORWARD, m) <= 1
          /\ Ran(s + 1, BACKWARD, m) <= 1
    /\ \A s \in Stages \ {LastStage} :
          /\ acts_sender_count(pipeline[s].schedule)
                = CountTask(pipeline[s + 1].schedule, FORWARD)
          /\ grads_sender_count(pipeline[s + 1].schedule)
                = CountTask(pipeline[s].schedule, BACKWARD)
          /\ acts_sender_count(pipeline[s].schedule) - pipeline[s].acts_send_count
                = Posted(s + 1, "acts") + Len(acts_wire[s])
          /\ grads_sender_count(pipeline[s + 1].schedule) - pipeline[s + 1].grads_send_count
                = Posted(s, "grads") + Len(grads_wire[s + 1])
    /\ AllDone =>
          \A s \in Stages :
             /\ pipeline[s].acts_send_queue = << >>
             /\ pipeline[s].grads_send_queue = << >>
             /\ pipeline[s].acts_queue = << >>
             /\ pipeline[s].grads_queue = << >>
             /\ acts_wire[s] = << >>
             /\ grads_wire[s] = << >>

C21_Witness ==
    /\ AllDone
    /\ varuna.partitions = 3
    /\ M = 3
    /\ Ran(0, RECOMPUTE, 2) = 1
    /\ Took(1, FORWARD, 2) = 1
    /\ Took(1, BACKWARD, 2) = 1

\* ------------------------------------ PartitionedModel.set_recv_fn (polling)
\* One wait of the compute thread for a payload: the while loop of
\* set_recv_fn (activations, on a stage > 0) or of recv(grads = True).  An
\* iteration is two steps, the test of excp_queue and the test of the payload
\* queue; the transfer workers put payloads and exceptions at any time.
Payloads == {"t1", "t2"}
Exceptions == {"e1", "e2"}

NewPoll(loop_, stage_, excp, queue_) ==
    [ state      |-> IF loop_ = "acts" /\ stage_ = 0 THEN "returned" ELSE "check_excp",
      loop       |-> loop_,
      stage      |-> stage_,
      excp_queue |-> excp,
      queue      |-> queue_,
      value      |-> "none",
      puts       |-> 0,
      iteration  |-> [excp_at_start |-> << >>, queue_at_start |-> << >>,
                      outcome |-> "none", value |-> "none", queue_after |-> << >>] ]

InitPoll ==
    /\ \E loop_ \in {"acts", "grads"}, stage_ \in 0..(MaxStages - 1) :
         \E excp \in SeqsOver(Exceptions, 0, MaxQueued),
            queue_ \in SeqsOver(Payloads, 0, MaxQueued) :
              pm = NewPoll(loop_, stage_, excp, queue_)
    /\ PipelineInit(1, 1, 1, FALSE, 1)
    /\ ScIdle

excp_check_skipped(excp) == [raise |-> FALSE, e |-> "none", excp_queue |-> excp]

\* if not self.excp_queue.empty(): e = self.excp_queue.get(); raise e
excp_check(excp) ==
    IF excp # << >> THEN [raise |-> TRUE, e |-> Head(excp), excp_queue |-> Tail(excp)]
    ELSE [raise |-> FALSE, e |-> "none", excp_queue |-> excp]

\* the first half of a poll iteration
poll_excp ==
    /\ pm.state = "check_excp"
    /\ LET c == excp_check(pm.excp_queue)
       IN  pm' = [pm EXCEPT
                    !.state = IF c.raise THEN "raised" ELSE "check_queue",
                    !.value = c.e,
                    !.excp_queue = c.excp_queue,
                    !.iteration = [excp_at_start |-> pm.excp_queue,
                                   queue_at_start |-> pm.queue,
                                   outcome |-> IF c.raise THEN "raised" ELSE "none",
                                   value |-> c.e,
                                   queue_after |-> pm.queue]]
    /\ UNCHANGED <<pipeVars, sc>>

\* the second half: if not self.acts_queue.empty(): acts = self.acts_queue.get()
poll_queue ==
    /\ pm.state = "check_queue"
    /\ IF pm.queue # << >>
       THEN pm' = [pm EXCEPT !.state = "returned",
                             !.value = Head(pm.queue),
                             !.queue = Tail(pm.queue),
                             !.iteration.outcome = "returned",
                             !.iteration.value = Head(pm.queue),
                             !.iteration.queue_after = Tail(pm.queue)]
       ELSE pm' = [pm EXCEPT !.state = "check_excp",
                             !.iteration.outcome = "again"]
    /\ UNCHANGED <<pipeVars, sc>>

\* a receive worker puts a payload on the polled queue
put_payload(t) ==
    /\ pm.state \in {"check_excp", "check_queue"}
    /\ pm.puts < MaxQueued
    /\ Len(pm.queue) < MaxQueued
    /\ pm' = [pm EXCEPT !.queue = Append(@, t), !.puts = @ + 1]
    /\ UNCHANGED <<pipeVars, sc>>

\* a transfer worker puts a failure on the exception channel
put_exception(e) ==
    /\ pm.state \in {"check_excp", "check_queue"}
    /\ pm.puts < MaxQueued
    /\ Len(pm.excp_queue) < MaxQueued
    /\ pm' = [pm EXCEPT !.excp_queue = Append(@, e), !.puts = @ + 1]
    /\ UNCHANGED <<pipeVars, sc>>

NextPoll ==
    \/ poll_excp
    \/ poll_queue
    \/ \E t \in Payloads : put_payload(t)
    \/ \E e \in Exceptions : put_exception(e)

SpecPoll == InitPoll /\ [][NextPoll]_vars

\* C22: a poll iteration that starts with a non-empty exception channel
\* raises the channel's first error and returns no payload, also when a
\* payload is available, and leaves the payload queue as it found it.
C22_ExceptionFirst ==
    pm.iteration.excp_at_start # << >> =>
        /\ pm.iteration.outcome = "raised"
        /\ pm.iteration.value = Head(pm.iteration.excp_at_start)
        /\ pm.iteration.queue_after = pm.iteration.queue_at_start
        /\ pm.state = "raised"
        /\ pm.value \in Exceptions

C22_Witness ==
    /\ pm.state = "raised"
    /\ pm.loop = "grads"
    /\ pm.iteration.queue_at_start # << >>
    /\ pm.iteration.excp_at_start # << >>
    /\ pm.puts > 0

\* ------------------------------------------------- the activated cutpoints
\* set_send_fn / set_recv_fn: the cutpoints that are given the functions
set_fn_targets(m) == {m.pre_cp, m.post_cp} \ {0}

\* CutPoint.set_cp_func: the cutpoints whose function receives or sends
\* (is_in_next_stage or is_in_prev_stage, and a function is installed)
communicating(m) ==
    {pos \in set_fn_targets(m) : m.cp_index[pos] \in {m.stage, m.stage + 1}}

\* the position of the cutpoint with index j in the canonical order
CutPointAt(j) == 2 * j

\* C23: after prep_cutpoints on stage s of S stages pre_cp is set iff s > 0
\* and post_cp iff s < S - 1, pre_cp is the cutpoint with index
\* stage_to_cut[s] and post_cp the one with index stage_to_cut[s+1], and the
\* cutpoints that send or receive are these and no other.
C23_BoundaryMarkers ==
    pm.state = "pruned" =>
        LET s == pm.stage
            S == pm.num_stages
        IN  /\ pm.pre_cp # 0 <=> s > 0
            /\ pm.post_cp # 0 <=> s < S - 1
            /\ s > 0 => pm.pre_cp = CutPointAt(pm.stage_to_cut[s + 1])
            /\ s < S - 1 => pm.post_cp = CutPointAt(pm.stage_to_cut[s + 2])
            /\ communicating(pm) =
                  {CutPointAt(pm.stage_to_cut[i + 1]) : i \in {s, s + 1} \cap 1..(S - 1)}

\* --------------------------------------------------------------- CutPoint
\* One cutpoint of a stage's model in one forward and the backward that
\* follows it.  kind says how prep_cutpoints and set_send_fn / set_recv_fn
\* left it: "plain" (cp_func is None), "foreign" (activated, cp_index is
\* neither stage nor stage + 1), "pre_cp" (cp_index = stage), "post_cp"
\* (cp_index = stage + 1); fns says whether send_fn and recv_fn are installed.
\* Tensors are named; "None" is the value None, "dummy" the tensor [-1.0],
\* "rand" a random tensor.  An input is None when the module before the
\* cutpoint was replaced by a PassThroughModule, which happens before the
\* receive-capable marker and before a cutpoint outside the stage; the inputs
\* of the send-capable marker are tensors, as in the dry run, which takes the
\* size of every input of every cutpoint.
\* "return i[0] if len(i) == 1 else i": a value is a single tensor or a tuple
Unpack(tup) == [single |-> Len(tup) = 1, items |-> tup]
NoValue == [single |-> FALSE, items |-> << >>]

CutPoints ==
    {c \in [kind : {"plain", "foreign", "pre_cp", "post_cp"}, fns : BOOLEAN,
            trimmed : BOOLEAN, pruning : BOOLEAN,
            inputs : SeqsOver({"x", "None"}, 1, MaxTensors),
            n_acts : 1..MaxTensors, n_shapes : 1..MaxTensors] :
        /\ c.fns => c.kind \in {"pre_cp", "post_cp"}
        /\ c.trimmed => c.kind \in {"pre_cp", "post_cp"}
        /\ c.kind = "post_cp" =>
              \A k \in 1..Len(c.inputs) : c.inputs[k] # "None"}

NewCutPoint(c) ==
    [ state       |-> "built",
      kind        |-> c.kind,
      fns         |-> c.fns,
      trimmed     |-> c.trimmed,
      pruning     |-> c.pruning,
      inputs      |-> c.inputs,
      recv_acts   |-> [i \in 1..c.n_acts |-> "a"],
      recv_grads  |-> [i \in 1..c.n_acts |-> "g"],
      grad_output |-> [i \in 1..Len(c.inputs) |-> "dy"],
      n_shapes    |-> c.n_shapes,
      out         |-> NoValue,
      grad_input  |-> NoValue,
      sent        |-> << >>,
      recv_calls  |-> << >> ]

InitCutPoint ==
    /\ \E c \in CutPoints : pm = NewCutPoint(c)
    /\ PipelineInit(1, 1, 1, FALSE, 1)
    /\ ScIdle

\* CutPoint.forward before cp_func is applied: the inputs of a trimmed stage
\* are random tensors, and inputs that hold a None are replaced by dummies
cp_func_inputs(c) ==
    LET i1 == IF c.trimmed THEN [k \in 1..c.n_shapes |-> "rand"] ELSE c.inputs
    IN  IF \E k \in 1..Len(i1) : i1[k] = "None"
        THEN IF c.pruning THEN <<"dummy">> ELSE [k \in 1..Len(i1) |-> "dummy"]
        ELSE i1

CutpointFunction_forward_no_recv(c, i) ==
    IF c.kind = "post_cp" /\ c.fns
    THEN [out |-> Unpack(i), sent |-> <<[payload |-> i, grads |-> FALSE]>>,
          recv_calls |-> << >>]
    ELSE [out |-> Unpack(i), sent |-> << >>, recv_calls |-> << >>]

\* CutpointFunction.forward
CutpointFunction_forward(c, i) ==
    IF c.kind = "pre_cp" /\ c.fns
    THEN [out |-> IF c.trimmed THEN Unpack(<<"rand">>) ELSE Unpack(c.recv_acts),
          sent |-> << >>, recv_calls |-> <<"acts">>]
    ELSE IF c.kind = "post_cp" /\ c.fns
    THEN [out |-> Unpack(i), sent |-> <<[payload |-> i, grads |-> FALSE]>>,
          recv_calls |-> << >>]
    ELSE [out |-> Unpack(i), sent |-> << >>, recv_calls |-> << >>]

\* CutpointFunction.backward
CutpointFunction_backward(c, grad_output_) ==
    LET g == IF c.trimmed THEN [k \in 1..c.n_shapes |-> "rand"] ELSE grad_output_
    IN  IF c.kind = "post_cp" /\ c.fns
        THEN [grad_input |-> Unpack(c.recv_grads), sent |-> << >>,
              recv_calls |-> <<"grads">>]
        ELSE IF c.kind = "pre_cp" /\ c.fns
        THEN [grad_input |-> Unpack(g), sent |-> <<[payload |-> g, grads |-> TRUE]>>,
              recv_calls |-> << >>]
        ELSE [grad_input |-> Unpack(g), sent |-> << >>, recv_calls |-> << >>]

\* CutPoint.forward
CutPoint_forward ==
    /\ pm.state = "built"
    /\ LET r == IF pm.kind = "plain"
                THEN [out |-> Unpack(pm.inputs), sent |-> << >>, recv_calls |-> << >>]
                ELSE CutpointFunction_forward(pm, cp_func_inputs(pm))
       IN  pm' = [pm EXCEPT !.state = "forwarded",
                            !.out = r.out,
                            !.sent = r.sent,
                            !.recv_calls = r.recv_calls]
    /\ UNCHANGED <<pipeVars, sc>>

\* the backward of the node the forward created (autograd's identity for a
\* cutpoint without cp_func)
CutPoint_backward ==
    /\ pm.state = "forwarded"
    /\ LET r == IF pm.kind = "plain"
                THEN [grad_input |-> Unpack(pm.grad_output), sent |-> << >>,
                      recv_calls |-> << >>]
                ELSE CutpointFunction_backward(pm, pm.grad_output)
       IN  pm' = [pm EXCEPT !.state = "backwarded",
                            !.grad_input = r.grad_input,
                            !.sent = @ \o r.sent,
                            !.recv_calls = @ \o r.recv_calls]
    /\ UNCHANGED <<pipeVars, sc>>

NextCutPoint ==
    \/ CutPoint_forward
    \/ CutPoint_backward

SpecCutPoint == InitCutPoint /\ [][NextCutPoint]_vars

\* what the roles of the two markers and of a cutpoint without function are
CutPointRoles ==
    LET fwd == [payload |-> pm.inputs, grads |-> FALSE]
        bwd == [payload |-> pm.grad_output, grads |-> TRUE]
    IN  /\ (pm.kind = "pre_cp" /\ pm.fns) =>
              /\ pm.out = Unpack(pm.recv_acts)
              /\ pm.state = "forwarded" => pm.sent = << >>
              /\ pm.state = "backwarded" =>
                    (pm.sent = <<bwd>> /\ pm.grad_input = Unpack(pm.grad_output))
        /\ (pm.kind = "post_cp" /\ pm.fns) =>
              /\ pm.out = Unpack(pm.inputs)
              /\ pm.sent = <<fwd>>
              /\ pm.state = "backwarded" => pm.grad_input = Unpack(pm.recv_grads)
        /\ pm.kind = "plain" =>
              /\ pm.out = Unpack(pm.inputs)
              /\ pm.sent = << >>
              /\ pm.recv_calls = << >>
              /\ pm.state = "backwarded" => pm.grad_input = Unpack(pm.grad_output)

\* C24 (as amended): on a stage that is not trimmed, the forward through the
\* receive-capable marker gives the payload of the receive function, not the
\* local inputs, and sends nothing; the forward through the send-capable
\* marker hands the inputs to the send function once and returns them
\* unchanged; the backward mirrors the roles; a cutpoint with no installed
\* function is the identity.
C24_CutPointRoles ==
    (pm.state # "built" /\ ~pm.trimmed) => CutPointRoles

C24_Witness ==
    /\ pm.state = "backwarded"
    /\ pm.kind = "pre_cp"
    /\ pm.fns
    /\ ~pm.trimmed
    /\ pm.inputs = <<"None">>
    /\ pm.out = Unpack(<<"a">>)
    /\ Len(pm.sent) = 1
    /\ pm.recv_calls = <<"acts">>

\* C24 as stated: for every forward and backward through a cutpoint
C24_Original == pm.state # "built" => CutPointRoles

\* ------------------------------- remove_unused_parameters with a container
\* The model of initialize with one container module around the modules at
\* positions first..last (first = 0: no container).  The canonical order is
\* that of the forward hooks, so the container comes right after its last
\* child.
Containers(K) ==
    {[first |-> 0, last |-> 0]} \cup
    {g \in [first : ModulePositions(K), last : ModulePositions(K)] : g.first <= g.last}

InitPrune ==
    /\ \E S \in 1..MaxStages, K \in 0..MaxCutpoints :
         \E stage_ \in 0..(S - 1), stc \in SeqsOver(0..K, S, S), g \in Containers(K),
            trimmed_ \in BOOLEAN :
              /\ asserts_pass(stc, S, K)
              /\ pm = [ NewPartitionedModel(S, K, stage_, FALSE, stc) EXCEPT
                          !.state = [name |-> "asserted", container |-> g,
                                     trimmed |-> trimmed_,
                                     container_replaced |-> FALSE] ]
    /\ PipelineInit(1, 1, 1, FALSE, 1)
    /\ ScIdle

container_is_used_by_flag_only(m, g) == add_flag_before(m, g.last + 1)

\* remove_unused_parameters: is_used of the container: add_flag where it
\* comes in the order, or True as an ancestor of a used module
container_is_used(m, g) ==
    \/ add_flag_before(m, g.last + 1)
    \/ \E pos \in g.first..g.last : ~IsCutPoint(pos) /\ add_flag_before(m, pos)

\* initialize from prep_cutpoints on
prune ==
    /\ pm.state.name = "asserted"
    /\ LET m == prep_cutpoints(pm)
           g == pm.state.container
       IN  pm' = IF pm.state.trimmed
                 THEN [m EXCEPT !.state.name = "trimmed"]
                 ELSE [remove_unused_parameters(m) EXCEPT
                          !.state.name = "pruned",
                          !.state.container_replaced =
                              g.first # 0 /\ ~container_is_used(m, g)]
    /\ UNCHANGED <<pipeVars, sc>>

SpecPrune == InitPrune /\ [][prune]_vars

\* the leaf at position pos lies between the stage's two activated markers
BetweenMarkers(pos) ==
    /\ pm.stage > 0 => pm.pre_cp < pos
    /\ pm.stage < pm.num_stages - 1 => pos < pm.post_cp

\* the container g, which comes right after its last child, lies between them
ComesBetweenMarkers(g) ==
    /\ pm.stage > 0 => pm.pre_cp <= g.last
    /\ pm.stage < pm.num_stages - 1 => g.last < pm.post_cp

\* C25: after remove_unused_parameters on a stage that is not trimmed a
\* module that is no cutpoint is kept iff it comes between the stage's two
\* activated markers in the canonical order (from the beginning on stage 0,
\* to the end on the last stage) or is an ancestor of such a module; every
\* other one is replaced by a PassThroughModule.
C25_KeptBetweenMarkers ==
    pm.state.name = "pruned" =>
        LET g == pm.state.container
        IN  /\ \A pos \in ModulePositions(pm.num_cutpoints) :
                  ~IsCutPoint(pos) => (pos \notin pm.replaced <=> BetweenMarkers(pos))
            /\ \A pos \in pm.replaced : ~IsCutPoint(pos)
            /\ g.first # 0 =>
                  (~pm.state.container_replaced <=>
                      \/ ComesBetweenMarkers(g)
                      \/ \E pos \in g.first..g.last :
                            ~IsCutPoint(pos) /\ BetweenMarkers(pos))

C25_Witness ==
    /\ pm.state.name = "pruned"
    /\ pm.num_stages = 2
    /\ pm.stage = 0
    /\ pm.num_cutpoints = 1
    /\ pm.state.container = [first |-> 1, last |-> 2]
    /\ ~ComesBetweenMarkers(pm.state.container)
    /\ ~pm.state.container_replaced
    /\ pm.replaced = {3}

\* ------------------------------------------------ check_unused_parameters
\* The parameters that self.module.named_parameters() yields on a stage, each
\* with its entry of param_name_to_pstage: recorded says whether the name is a
\* key of the map, pstage is the recorded interval (-1 .. K).
ParamEntries(K) == [recorded : BOOLEAN, pstage : -1..K, value : {"tensor"}]

InitCheckUnused ==
    /\ \E S \in 1..MaxStages, K \in 0..MaxCutpoints :
         \E stage_ \in 0..(S - 1), stc \in SeqsOver(0..K, S, S),
            params_ \in [1..MaxParams -> ParamEntries(K)] :
              /\ asserts_pass(stc, S, K)
              /\ pm = [ state         |-> "pruning",
                        num_stages    |-> S,
                        num_cutpoints |-> K,
                        stage         |-> stage_,
                        stage_to_cut  |-> stc,
                        params        |-> params_ ]
    /\ PipelineInit(1, 1, 1, FALSE, 1)
    /\ ScIdle

sets_to_None_below_only(m, entry) ==
    LET start_pstage == m.stage_to_cut[m.stage + 1]
    IN  /\ entry.recorded
        /\ entry.pstage # -1 /\ entry.pstage < start_pstage

\* check_unused_parameters: the test that sets a parameter to None
sets_to_None(m, entry) ==
    LET start_pstage == m.stage_to_cut[m.stage + 1]
        end_pstage == IF m.stage < m.num_stages - 1
                      THEN m.stage_to_cut[m.stage + 2]
                      ELSE m.num_cutpoints + 1
    IN  /\ entry.recorded
        /\ entry.pstage # -1
        /\ (entry.pstage < start_pstage \/ entry.pstage >= end_pstage)

\* check_unused_parameters over the parameters of the module
check_unused_parameters_loop ==
    /\ pm.state = "pruning"
    /\ pm' = [pm EXCEPT
                !.state = "model_pruned",
                !.params = [n \in DOMAIN pm.params |->
                               IF sets_to_None(pm, pm.params[n])
                               THEN [pm.params[n] EXCEPT !.value = "None"]
                               ELSE pm.params[n]]]
    /\ UNCHANGED <<pipeVars, sc>>

SpecCheckUnused == InitCheckUnused /\ [][check_unused_parameters_loop]_vars

\* the interval p lies in [stage_to_cut[s], stage_to_cut[s+1]), the upper end
\* being K + 1 on the last stage
InStageRange(p) ==
    /\ pm.stage_to_cut[pm.stage + 1] <= p
    /\ p < (IF pm.stage = pm.num_stages - 1 THEN pm.num_cutpoints + 1
            ELSE pm.stage_to_cut[pm.stage + 2])

\* C26: after check_unused_parameters on stage s a parameter with recorded
\* interval p is discarded iff p # -1 and p lies outside the stage's range;
\* a parameter in range, one recorded with -1 and one without a recorded
\* interval keep their value.
C26_DiscardOutOfRange ==
    pm.state = "model_pruned" =>
        \A n \in DOMAIN pm.params :
            LET e == pm.params[n]
            IN  /\ e.recorded =>
                     (e.value = "None" <=> (e.pstage # -1 /\ ~InStageRange(e.pstage)))
                /\ ~e.recorded => e.value = "tensor"

C26_Witness ==
    /\ pm.state = "model_pruned"
    /\ pm.num_stages = 3
    /\ pm.stage = 1
    /\ pm.stage_to_cut = <<0, 1, 3>>
    /\ pm.params[1] = [recorded |-> TRUE, pstage |-> 3, value |-> "None"]
    /\ pm.params[2] = [recorded |-> TRUE, pstage |-> -1, value |-> "tensor"]

\* ---------------------------------------------------- neighbour derivation
\* stage_to_rank_map as the list, per stage, of the ranks of its replicas.
\* The ranks are those of the job's processes, 0 .. world size - 1, each in
\* one place of the map (a rank names one process, which runs one replica of
\* one stage); every stage has d replicas.
RankOrders(n) ==
    {f \in [1..n -> 0..(n - 1)] : \A i, j \in 1..n : i # j => f[i] # f[j]}

RankMapOf(S, d, f) == [s \in 1..S |-> [i \in 1..d |-> f[(s - 1) * d + i]]]

EvenRankMaps ==
    UNION { {RankMapOf(sd.S, sd.d, f) : f \in RankOrders(sd.S * sd.d)} :
            sd \in {x \in [S : 1..MaxStages, d : 1..MaxReplicas] : x.S * x.d <= MaxWorld} }

WorldOf(map) == 0..(Len(map) * Len(map[1]) - 1)

\* Varuna.__init__: the loops over the map; the inner loop stops at the first
\* match, the outer loop goes on, so the last stage that lists the rank wins
find_stage(map, rank_) ==
    LET holding == {s \in 1..Len(map) : \E i \in 1..Len(map[s]) : map[s][i] = rank_}
        s == CHOOSE x \in holding : \A y \in holding : y <= x
        i == CHOOSE x \in 1..Len(map[s]) :
                /\ map[s][x] = rank_
                /\ \A y \in 1..(x - 1) : map[s][y] # rank_
    IN  [stage |-> s - 1, rank_within_stage |-> i - 1]

NoRank == -1

send_rank_of_first_replica(map, stage_, rank_within_stage_) ==
    IF stage_ < Len(map) - 1 THEN map[stage_ + 2][1] ELSE NoRank

\* init_communication: send_rank
send_rank_of(map, stage_, rank_within_stage_) ==
    IF stage_ < Len(map) - 1 THEN map[stage_ + 2][rank_within_stage_ + 1] ELSE NoRank

\* init_communication: what the process of a rank derives
init_communication_of(map, rank_) ==
    LET f == find_stage(map, rank_)
        partitions == Len(map)
    IN  [ stage               |-> f.stage,
          rank_within_stage   |-> f.rank_within_stage,
          embedding_recv_rank |-> IF f.stage = 0
                                  THEN map[partitions][f.rank_within_stage + 1]
                                  ELSE NoRank,
          embedding_send_rank |-> IF f.stage = partitions - 1
                                  THEN map[1][f.rank_within_stage + 1]
                                  ELSE NoRank,
          send_rank           |-> send_rank_of(map, f.stage, f.rank_within_stage),
          recieve_rank        |-> IF f.stage > 0
                                  THEN map[f.stage][f.rank_within_stage + 1]
                                  ELSE NoRank ]

InitTopology ==
    /\ \E map \in EvenRankMaps :
             pm = [state |-> "launched", stage_to_rank_map |-> map,
                   config |-> [r \in WorldOf(map) |-> [stage |-> NoRank]]]
    /\ PipelineInit(1, 1, 1, FALSE, 1)
    /\ ScIdle

\* the process of rank r constructs its Varuna object
init_communication(r) ==
    /\ pm.config[r] = [stage |-> NoRank]
    /\ pm' = [pm EXCEPT !.config[r] = init_communication_of(pm.stage_to_rank_map, r)]
    /\ UNCHANGED <<pipeVars, sc>>

NextTopology == \E r \in DOMAIN pm.config : init_communication(r)

SpecTopology == InitTopology /\ [][NextTopology]_vars

Configured == {r \in DOMAIN pm.config : pm.config[r] # [stage |-> NoRank]}

WeightNames == {"a", "b"}
Unset == -2

InitShared ==
    /\ \E S \in 1..MaxStages, K \in 0..MaxCutpoints :
         \E stc \in SeqsOver(0..K, S, S),
            pairs \in SeqsOver(WeightNames \X WeightNames, 1, MaxPairs),
            where_ \in [WeightNames -> -1..K], root_has_ \in [WeightNames -> BOOLEAN] :
              /\ asserts_pass(stc, S, K)
              /\ pm = [ state                |-> "asserted",
                        num_stages           |-> S,
                        num_cutpoints        |-> K,
                        stage_to_cut         |-> stc,
                        shared_weights       |-> pairs,
                        where                |-> where_,
                        root_has             |-> root_has_,
                        weight_stages        |-> [w \in WeightNames |-> Unset],
                        shared_weight_stages |-> << >> ]
    /\ PipelineInit(1, 1, 1, FALSE, 1)
    /\ ScIdle

\* all_shared_weights: the members of the pairs, in order
RECURSIVE all_shared_weights(_)
all_shared_weights(pairs) ==
    IF pairs = << >> THEN << >>
    ELSE <<Head(pairs)[1], Head(pairs)[2]>> \o all_shared_weights(Tail(pairs))

\* the loop over ordered_modules: in each module the first weight of
\* all_shared_weights that the module holds is given curr_stage, then the
\* inner loop is left; afterwards a weight still without entry gets the final
\* curr_stage when self.module has an attribute of its name
found_weight_stages(m) ==
    LET all == all_shared_weights(m.shared_weights)
        first_in(j) == CHOOSE i \in 1..Len(all) :
                          /\ m.where[all[i]] = j
                          /\ \A k \in 1..(i - 1) : m.where[all[k]] # j
    IN  [w \in WeightNames |->
            IF /\ m.where[w] >= 0
               /\ \E i \in 1..Len(all) : all[i] = w
               /\ all[first_in(m.where[w])] = w
            THEN m.where[w]
            ELSE IF (\E i \in 1..Len(all) : all[i] = w) /\ m.root_has[w]
            THEN m.num_cutpoints
            ELSE Unset]

\* cutpoint_id = weight_stages[w]; the first stage whose range holds it
\* replaces the entry, which is left as it is when no range holds it
resolve(ws, w, ranges) ==
    IF \E s \in 1..Len(ranges) : ws[w] \in ranges[s]
    THEN [ws EXCEPT ![w] = (CHOOSE s \in 1..Len(ranges) :
                               /\ ws[w] \in ranges[s]
                               /\ \A r \in 1..(s - 1) : ws[w] \notin ranges[r]) - 1]
    ELSE ws

\* the loop over the pairs from pair k on: r.ok is FALSE when the assertion
\* "not found in model" failed
RECURSIVE resolve_pairs(_, _, _, _, _)
resolve_pairs(pairs, k, ws, out, ranges) ==
    IF k > Len(pairs) THEN [ok |-> TRUE, weight_stages |-> ws, shared_weight_stages |-> out]
    ELSE IF ws[pairs[k][1]] = Unset
    THEN [ok |-> FALSE, weight_stages |-> ws, shared_weight_stages |-> out]
    ELSE LET ws1 == resolve(ws, pairs[k][1], ranges)
         IN  IF ws1[pairs[k][2]] = Unset
             THEN [ok |-> FALSE, weight_stages |-> ws1, shared_weight_stages |-> out]
             ELSE LET ws2 == resolve(ws1, pairs[k][2], ranges)
                  IN  resolve_pairs(pairs, k + 1, ws2,
                                    Append(out, <<ws2[pairs[k][1]], ws2[pairs[k][2]]>>),
                                    ranges)

find_shared_weight_stages ==
    /\ pm.state = "asserted"
    /\ LET r == resolve_pairs(pm.shared_weights, 1, found_weight_stages(pm), << >>,
                              stage_to_cut_ranges(pm.stage_to_cut, pm.num_stages,
                                                  pm.num_cutpoints))
       IN  pm' = [pm EXCEPT
                    !.state = IF r.ok THEN "shared_found" ELSE "assertion_error",
                    !.weight_stages = r.weight_stages,
                    !.shared_weight_stages = IF r.ok THEN r.shared_weight_stages ELSE << >>]
    /\ UNCHANGED <<pipeVars, sc>>

SpecShared == InitShared /\ [][find_shared_weight_stages]_vars

\* the interval the member w of a pair lies in (the last one for a weight of
\* the root module)
StructuralInterval(w) == IF pm.where[w] >= 0 THEN pm.where[w] ELSE pm.num_cutpoints

\* C28: find_shared_weight_stages ends with every member of every declared
\* pair recorded with a stage index in 0..num_stages-1 whose cut range holds
\* the member's structural interval, or it rejects the configuration with an
\* error.
C28_SharedResolved ==
    pm.state = "shared_found" =>
        LET ranges == stage_to_cut_ranges(pm.stage_to_cut, pm.num_stages, pm.num_cutpoints)
        IN  /\ Len(pm.shared_weight_stages) = Len(pm.shared_weights)
            /\ \A k \in 1..Len(pm.shared_weights) : \A i \in 1..2 :
                  LET v == pm.shared_weight_stages[k][i]
                  IN  /\ v \in 0..(pm.num_stages - 1)
                      /\ StructuralInterval(pm.shared_weights[k][i]) \in ranges[v + 1]

\* ------------------------------------------------------- the end of run
\* C29: when run has returned on a stage, every transfer worker of that
\* stage has ended: both receivers have left their loops, both senders have
\* sent all their payloads and nothing is left on a send queue.
C29_RunJoinsWorkers ==
    \A s \in Stages :
        pipeline[s].run_state = "done" =>
            /\ pipeline[s].acts_recv_pos > Len(pipeline[s].schedule)
            /\ pipeline[s].grads_recv_pos > Len(pipeline[s].schedule)
            /\ pipeline[s].acts_send_count = 0
            /\ pipeline[s].grads_send_count = 0
            /\ pipeline[s].acts_send_queue = << >>
            /\ pipeline[s].grads_send_queue = << >>

\* ------------------------------------------------------- the pending output
\* the task sets self.loss: a forward run with gradient tracking, a recompute
SetsLoss(e) == (e.task = FORWARD /\ e.grad_mode) \/ e.task = RECOMPUTE

\* C30: under the generated schedule a backward of microbatch m finds
\* self.loss set by the task right before it, a gradient-tracking forward or
\* a recompute of the same microbatch m; a task that sets self.loss finds it
\* None, so no pending output is overwritten; self.loss is None after every
\* backward and pending after every task that sets it.
C30_PendingOutput ==
    \A s \in Stages :
        LET ex == pipeline[s].executed
        IN  /\ \A k \in 1..Len(ex) :
                /\ ex[k].task = BACKWARD =>
                    /\ ex[k].loss = ex[k].index
                    /\ k > 1
                    /\ SetsLoss(ex[k - 1])
                    /\ ex[k - 1].index = ex[k].index
                /\ SetsLoss(ex[k]) => ex[k].loss = None.mb
            /\ (ex # << >> /\ ex[Len(ex)].task = BACKWARD) =>
                    pipeline[s].loss = None
            /\ (ex # << >> /\ SetsLoss(ex[Len(ex)])) =>
                    pipeline[s].loss.mb = ex[Len(ex)].index

\* a middle stage has run the recompute and the backward of two microbatches
\* and the last stage a gradient-tracking forward and its backward
C30_Witness ==
    \E s \in Stages :
        LET ex == pipeline[s].executed
            last == pipeline[varuna.partitions - 1].executed
        IN  /\ 0 < s /\ s < varuna.partitions - 1
            /\ pipeline[s].loss = None
            /\ \E j, k \in 2..Len(ex) :
                /\ ex[j].task = BACKWARD /\ ex[j - 1].task = RECOMPUTE
                /\ ex[j].loss = ex[j].index
                /\ ex[k].task = BACKWARD /\ ex[k - 1].task = RECOMPUTE
                /\ ex[k].loss = ex[k].index
                /\ ex[j].index # ex[k].index
            /\ \E k \in 2..Len(last) :
                /\ last[k].task = BACKWARD /\ last[k].loss = last[k].index
                /\ last[k - 1].task = FORWARD /\ last[k - 1].grad_mode

\* ------------------------------------- kept modules and kept parameters
\* the marker intervals whose layer the stage kept
KeptIntervals(m) ==
    {Pstage(pos) : pos \in {q \in ModulePositions(m.num_cutpoints) \ m.replaced :
                               ~IsCutPoint(q)}}

\* C31: after initialize accepted the assignment, the marker intervals whose
\* modules stage s keeps are exactly the intervals of its range
\* [stage_to_cut[s], stage_to_cut[s+1]) (to K on the last stage), and no
\* kept module has its parameter discarded.
C31_KeptModulesOwned ==
    pm.state = "pruned" =>
        /\ KeptIntervals(pm) = {p \in 0..pm.num_cutpoints : InStageRange(p)}
        /\ pm.discarded = {}

\* ------------------------------------------- publication of the shapes
\* One non-final stage over consecutive pipeline invocations.  Every
\* invocation runs the stage's schedule; a forward and a recompute entry call
\* the stage's model once, which passes once through the send-capable marker
\* (post_cp) unless the stage is trimmed down to its receive-capable marker.
\* num_chunks is the chunks argument of PartitionedModel, which the cutpoint
\* gets in prep_cutpoints; the schedule is that of Varuna.generate_schedule
\* for chunks microbatches.  module says what remove_unused_parameters left
\* as self.module: "model" (not trimmed), "post_cp" (trimmed, before the
\* profiled stages) or "pre_cp" (trimmed, after them).  An exception unwinds
\* run and nothing starts another invocation after it, so every invocation
\* that is followed by another one has run its whole schedule.
InitShapes ==
    /\ \E S \in 2..MaxStages, chunks \in 1..MaxChunks, num_chunks_ \in 1..MaxChunks,
          module_ \in {"model", "post_cp", "pre_cp"} :
         \E stage_ \in 0..(S - 2) :
            /\ module_ = "pre_cp" => stage_ > 0
            /\ pm = [ state           |-> "idle",
                      num_stages      |-> S,
                      stage           |-> stage_,
                      chunks          |-> chunks,
                      schedule        |-> genschedule(S, chunks, stage_),
                      module          |-> module_,
                      trimmed         |-> module_ # "model",
                      num_chunks      |-> num_chunks_,
                      forward_counter |-> 0,
                      invocation      |-> 0,
                      index           |-> 0,
                      passes          |-> 0,
                      grads_shape_queue |-> << >> ]
    /\ PipelineInit(1, 1, 1, FALSE, 1)
    /\ ScIdle

CutPoint_forward_counter_per_chunk(c) ==
    IF c.forward_counter % c.num_chunks = 0
    THEN [set_shapes |-> TRUE, forward_counter |-> 1]
    ELSE [set_shapes |-> FALSE, forward_counter |-> c.forward_counter + 1]

\* CutPoint.forward on the send-capable marker of a non-final stage: whether
\* it calls set_shapes, and the counter it leaves
CutPoint_forward_counter(c) ==
    IF c.forward_counter % (2 * c.num_chunks) = 0
    THEN [set_shapes |-> TRUE, forward_counter |-> 1]
    ELSE [set_shapes |-> FALSE, forward_counter |-> c.forward_counter + 1]

\* PartitionedModel.set_shapes: what is put on grads_shape_queue
set_shapes(m) == IF m.trimmed THEN "backward_grad_shapes" ELSE "inp_shapes"

\* Varuna.forward: a new Pipeline on the same model, and the start of its run
Pipeline_run_begin ==
    /\ pm.state = "idle"
    /\ pm.invocation < MaxInvocations
    /\ pm' = [pm EXCEPT !.state = "run", !.invocation = @ + 1,
                        !.index = 1, !.passes = 0]
    /\ UNCHANGED <<pipeVars, sc>>

\* worker, task 0 or 1: self.model(...) runs the stage's module
Pipeline_model_task ==
    /\ pm.state = "run"
    /\ pm.index <= Len(pm.schedule)
    /\ pm.schedule[pm.index][1] \in {FORWARD, RECOMPUTE}
    /\ LET r == CutPoint_forward_counter(pm)
           through == pm.module # "pre_cp"
       IN  pm' = IF ~through THEN [pm EXCEPT !.index = @ + 1]
                 ELSE [pm EXCEPT
                         !.index = @ + 1,
                         !.passes = @ + 1,
                         !.forward_counter = r.forward_counter,
                         !.grads_shape_queue =
                             IF r.set_shapes
                             THEN Append(@, [shapes     |-> set_shapes(pm),
                                             invocation |-> pm.invocation,
                                             pass       |-> pm.passes + 1])
                             ELSE @]
    /\ UNCHANGED <<pipeVars, sc>>

\* worker, any other task: the backward does not run the marker's forward
Pipeline_backward_task ==
    /\ pm.state = "run"
    /\ pm.index <= Len(pm.schedule)
    /\ pm.schedule[pm.index][1] = BACKWARD
    /\ pm' = [pm EXCEPT !.index = @ + 1]
    /\ UNCHANGED <<pipeVars, sc>>

\* run returns
Pipeline_run_end ==
    /\ pm.state = "run"
    /\ pm.index > Len(pm.schedule)
    /\ pm' = [pm EXCEPT !.state = "idle"]
    /\ UNCHANGED <<pipeVars, sc>>

NextShapes ==
    \/ Pipeline_run_begin
    \/ Pipeline_model_task
    \/ Pipeline_backward_task
    \/ Pipeline_run_end

SpecShapes == InitShapes /\ [][NextShapes]_vars

\* the publications made in invocation i
PublishedIn(i) ==
    {k \in 1..Len(pm.grads_shape_queue) : pm.grads_shape_queue[k].invocation = i}

\* in every invocation so far the shapes were published once, at the first
\* pass through the marker, and not before that pass
PublishedOncePerInvocation ==
    \A i \in 1..pm.invocation :
        IF i = pm.invocation /\ pm.passes = 0
        THEN PublishedIn(i) = {}
        ELSE /\ Cardinality(PublishedIn(i)) = 1
             /\ \A k \in PublishedIn(i) : pm.grads_shape_queue[k].pass = 1

RankLists ==
    {l \in SeqsOver(0..MaxRank, 1, MaxReplicas) :
        \A i \in 1..(Len(l) - 1) : l[i] < l[i + 1]}

ListedRankMaps == UNION {[1..S -> RankLists] : S \in 1..MaxStages}

Listing(map, rank_) ==
    {s \in 1..Len(map) : \E i \in 1..Len(map[s]) : map[s][i] = rank_}

InitStageIndex ==
    /\ \E map \in ListedRankMaps, rank_ \in 0..MaxRank :
         pm = [ state             |-> "new",
                stage_to_rank_map |-> map,
                rank              |-> rank_,
                varuna_stage      |-> NoRank,
                model_stage       |-> NoRank ]
    /\ PipelineInit(1, 1, 1, FALSE, 1)
    /\ ScIdle

\* PartitionedModel.__init__: the loop over the map stops at the first stage
\* that lists the rank
PartitionedModel_find_stage(map, rank_) ==
    IF Listing(map, rank_) = {} THEN NoRank
    ELSE (CHOOSE s \in Listing(map, rank_) : \A y \in Listing(map, rank_) : s <= y) - 1

\* Varuna.__init__: the search for the rank and the check after it
Varuna_init_search ==
    /\ pm.state = "new"
    /\ pm' = IF Listing(pm.stage_to_rank_map, pm.rank) = {}
             THEN [pm EXCEPT !.state = "ValueError"]
             ELSE [pm EXCEPT !.state = "searched",
                             !.varuna_stage =
                                 find_stage(pm.stage_to_rank_map, pm.rank).stage]
    /\ UNCHANGED <<pipeVars, sc>>

\* PartitionedModel.__init__, called by Varuna.__init__: its own search
PartitionedModel_init_search ==
    /\ pm.state = "searched"
    /\ pm' = [pm EXCEPT !.state = "constructed",
                        !.model_stage =
                            PartitionedModel_find_stage(pm.stage_to_rank_map, pm.rank)]
    /\ UNCHANGED <<pipeVars, sc>>

NextStageIndex ==
    \/ Varuna_init_search
    \/ PartitionedModel_init_search

SpecStageIndex == InitStageIndex /\ [][NextStageIndex]_vars

\* C33: for every map that lists the process's rank, under one stage or
\* under several, Varuna.__init__ and PartitionedModel.__init__ derive the
\* same stage index.
C33_SameStageIndex ==
    pm.state = "constructed" => pm.varuna_stage = pm.model_stage

\* ------------------------------------------------------- the look-ahead
\* C34: in every schedule that run executes a forward entry is never the
\* last entry, so the read of schedule[index+1] that run makes for a forward
\* entry is within bounds, and no run raises.
C34_LookAheadInBounds ==
    \A s \in Stages :
        LET p == pipeline[s]
        IN  /\ \A i \in 1..Len(p.schedule) :
                  p.schedule[i][1] = FORWARD => i + 1 <= Len(p.schedule)
            /\ p.run_state # "raised"

\* a stage has run the forward entry that is the last but one of its
\* schedule: the look-ahead read the last entry
C34_Witness ==
    \E s \in Stages :
        LET p == pipeline[s]
        IN  /\ p.index = Len(p.schedule)
            /\ Len(p.executed) = Len(p.schedule) - 1
            /\ p.executed[Len(p.executed)].task = FORWARD
            /\ p.executed[Len(p.executed)].grad_mode
            /\ Len(p.batches) > 1

\* ------------------------------------------- ret_val over several calls
\* A pruned stage and the calls of PartitionedModel.forward made on it, one
\* after the other.  ret_val is self.ret_val: NoRetVal for None, else the
\* value the send-capable marker recorded, tagged with the number of the
\* call that recorded it.  last is the record of the latest call.  In a call
\* comm_raises says whether set_recv_fn raises an exception it found on the
\* exception queue, raise_at is the position of the module that throws (0:
\* none) and ctx_raises whether saving the recompute context throws (save_ctx
\* without the received activations).
NoRetVal == [kind |-> "none", call |-> 0]

InitRetVal ==
    /\ \E c \in ForwardCalls :
         /\ c.raise_at = 0
         /\ pm = [ model             |-> NewForward(c).model,
                   print_takes_force |-> c.print_takes_force,
                   ret_val           |-> NoRetVal,
                   calls             |-> 0,
                   last              |-> [entered_with |-> NoRetVal,
                                          result       |-> "none",
                                          exception    |-> "none",
                                          value        |-> NoRetVal] ]
    /\ PipelineInit(1, 1, 1, FALSE, 1)
    /\ ScIdle

forward_try_keeps_ret_val(ret_val_, raised, print_takes_force_) ==
    IF raised /\ ret_val_ = NoRetVal
    THEN [result |-> "raised", exception |-> except_no_ret_val(print_takes_force_),
          value |-> NoRetVal, ret_val |-> ret_val_]
    ELSE [result |-> "returned", exception |-> "none",
          value |-> IF ret_val_ # NoRetVal THEN ret_val_
                    ELSE [kind |-> "calc_val", call |-> 0],
          ret_val |-> ret_val_]

\* forward, from the try statement to self.ret_val = None: ret_val_ is
\* self.ret_val when the module has returned or thrown
forward_try(ret_val_, raised, print_takes_force_) ==
    IF raised /\ ret_val_ = NoRetVal
    THEN [result |-> "raised", exception |-> except_no_ret_val(print_takes_force_),
          value |-> NoRetVal, ret_val |-> ret_val_]
    ELSE [result |-> "returned", exception |-> "none",
          value |-> IF ret_val_ # NoRetVal THEN ret_val_
                    ELSE [kind |-> "calc_val", call |-> 0],
          ret_val |-> NoRetVal]

\* one call of PartitionedModel.forward
PartitionedModel_forward_call(comm_raises, raise_at_, ctx_raises) ==
    /\ pm.calls < MaxInvocations
    /\ raise_at_ <= 2 * pm.model.num_cutpoints + 1
    /\ LET n == pm.calls + 1
           recorded == set_ret_val_ran(pm.model.post_cp, raise_at_)
           after_module == IF recorded THEN [kind |-> "ret_val", call |-> n]
                           ELSE pm.ret_val
           r == forward_try(after_module, raise_at_ # 0, pm.print_takes_force)
       IN  pm' = IF comm_raises
                 THEN [pm EXCEPT
                         !.calls = n,
                         !.last = [entered_with |-> pm.ret_val, result |-> "raised",
                                   exception |-> "transport", value |-> NoRetVal]]
                 ELSE [pm EXCEPT
                         !.calls = n,
                         !.ret_val = r.ret_val,
                         !.last = IF r.result = "returned" /\ ctx_raises
                                  THEN [entered_with |-> pm.ret_val, result |-> "raised",
                                        exception |-> "save_ctx", value |-> NoRetVal]
                                  ELSE [entered_with |-> pm.ret_val, result |-> r.result,
                                        exception |-> r.exception, value |-> r.value]]
    /\ UNCHANGED <<pipeVars, sc>>

NextRetVal ==
    \E comm_raises, ctx_raises \in BOOLEAN, raise_at_ \in 0..(2 * MaxCutpoints + 1) :
        PartitionedModel_forward_call(comm_raises, raise_at_, ctx_raises)

SpecRetVal == InitRetVal /\ [][NextRetVal]_vars

\* C35: ret_val is None when forward is entered and when it returns or
\* raises, over any sequence of calls, and an override value that a call
\* returns was recorded by the marker in that call, not in an earlier one.
C35_RetValCleared ==
    /\ pm.ret_val = NoRetVal
    /\ pm.last.entered_with = NoRetVal
    /\ pm.last.value.kind = "ret_val" => pm.last.value.call = pm.calls

\* the last of several calls on a stage with a send-capable marker returned
\* the value the marker recorded in that call, and ret_val is None again
C35_Witness ==
    /\ pm.calls = MaxInvocations
    /\ pm.model.post_cp # 0
    /\ pm.last.result = "returned"
    /\ pm.last.value = [kind |-> "ret_val", call |-> MaxInvocations]
    /\ pm.ret_val = NoRetVal

\* ------------------------------------------------ the default assignment
\* C36: when no assignment was given and K + 1 >= num_stages, initialize
\* computes [0, c, 2c, ..., (num_stages - 1) * c] with c = (K + 1) div
\* num_stages: num_stages values, the first 0, strictly increasing, the last
\* at most K; the assertions pass and the model is pruned under it.
C36_DefaultAssignment ==
    [][ ( /\ pm.state = "constructed"
          /\ pm.stage_to_cut_is_none
          /\ pm.num_cutpoints + 1 >= pm.num_stages )
        => LET S == pm.num_stages
               K == pm.num_cutpoints
               c == (K + 1) \div S
               stc == pm'.stage_to_cut
           IN  /\ pm'.state = "pruned"
               /\ Len(stc) = S
               /\ \A i \in 1..S : stc[i] = (i - 1) * c
               /\ stc[1] = 0
               /\ \A i \in 1..(S - 1) : stc[i] < stc[i + 1]
               /\ stc[S] <= K
               /\ asserts_pass(stc, S, K) ]_vars

\* two stages over three cutpoints were pruned under [0, 2], which is what
\* initialize computes for them when no assignment is given
C36_Witness ==
    /\ pm.state = "pruned"
    /\ pm.num_stages = 2
    /\ pm.num_cutpoints = 3
    /\ pm.stage_to_cut = default_stage_to_cut(pm.num_cutpoints, pm.num_stages)
    /\ pm.stage_to_cut = <<0, 2>>

====
